---- MODULE Spec2Model ----
(***************************************************************************)
(* CSV import / export of excel_mcp (src/src/excel_mcp/csv_operations.py)  *)
(* as a state machine over one workbook path.                              *)
(*                                                                         *)
(* Text is a sequence of one-character strings.  A sheet name is a         *)
(* sequence <<base, k1, k2, ...>> standing for the string                  *)
(* "base_k1_k2..."; the empty sequence stands for Python's None.  A        *)
(* negative element -n stands for the digits of n put directly after the   *)
(* name, without the underscore.                                           *)
(* A cell maps to the text that was written to it; the empty text is what  *)
(* the workbook engine reads back as None.                                 *)
(***************************************************************************)
EXTENDS Integers, Sequences, FiniteSets, TLC

\* ------------------------------------------------------------------ bounds
\* the import calls of a run, and the work items of a bulk call
MaxImports == 2
MaxItems == 2
\* the bytes of a sequence given to the codec
MaxBytes == 3

\* ------------------------------------------------------------- characters
QUOTE == "\""
COMMA == ","
SEMI == ";"
CR == "\r"
LF == "\n"

IsNewline(c) == c = LF \/ c = CR

\* ---------------------------------------------------------- csv.reader
\* The reader's automaton: st is its state, field the field being read,
\* fields the record being read, rows the records already returned.
ParserStart == [st |-> "START_RECORD", field |-> <<>>, fields |-> <<>>, rows |-> <<>>]

SaveField(p, next) ==
    [p EXCEPT !.fields = Append(p.fields, p.field), !.field = <<>>, !.st = next]

AddChar(p, c, next) == [p EXCEPT !.field = Append(p.field, c), !.st = next]

InStartField(p, c, delim) ==
    IF IsNewline(c) THEN SaveField(p, "EAT_CRNL")
    ELSE IF c = QUOTE THEN [p EXCEPT !.st = "IN_QUOTED_FIELD"]
    ELSE IF c = delim THEN SaveField(p, "START_FIELD")
    ELSE AddChar(p, c, "IN_FIELD")

\* parse_process_char for a character of the line
ProcessChar(p, c, delim) ==
    CASE p.st = "START_RECORD" ->
            IF IsNewline(c) THEN [p EXCEPT !.st = "EAT_CRNL"]
            ELSE InStartField(p, c, delim)
      [] p.st = "START_FIELD" -> InStartField(p, c, delim)
      [] p.st = "IN_FIELD" ->
            IF IsNewline(c) THEN SaveField(p, "EAT_CRNL")
            ELSE IF c = delim THEN SaveField(p, "START_FIELD")
            ELSE AddChar(p, c, "IN_FIELD")
      [] p.st = "IN_QUOTED_FIELD" ->
            IF c = QUOTE THEN [p EXCEPT !.st = "QUOTE_IN_QUOTED_FIELD"]
            ELSE AddChar(p, c, "IN_QUOTED_FIELD")
      [] p.st = "QUOTE_IN_QUOTED_FIELD" ->
            IF c = QUOTE THEN AddChar(p, c, "IN_QUOTED_FIELD")
            ELSE IF c = delim THEN SaveField(p, "START_FIELD")
            ELSE IF IsNewline(c) THEN SaveField(p, "EAT_CRNL")
            ELSE AddChar(p, c, "IN_FIELD")
      [] p.st = "EAT_CRNL" ->
            IF IsNewline(c) THEN p ELSE [p EXCEPT !.st = "ERROR"]
      [] OTHER -> p

\* A finished record is handed out and the reader is reset for the next one.
EmitRecord(p) ==
    IF p.st = "START_RECORD"
    THEN [p EXCEPT !.rows = Append(p.rows, p.fields), !.fields = <<>>, !.field = <<>>]
    ELSE p

\* parse_process_char for the end of a line, then the test of the do-while
ProcessEOL(p) ==
    EmitRecord(
      CASE p.st \in {"START_FIELD", "IN_FIELD", "QUOTE_IN_QUOTED_FIELD"} ->
               SaveField(p, "START_RECORD")
        [] p.st = "EAT_CRNL" -> [p EXCEPT !.st = "START_RECORD"]
        [] OTHER -> p)

\* The input iterator is exhausted: a record left open inside quotes is
\* returned as it stands.
EndOfInput(p) ==
    IF p.st = "IN_QUOTED_FIELD"
    THEN [p EXCEPT !.rows = Append(p.rows, Append(p.fields, p.field)),
                   !.st = "START_RECORD"]
    ELSE p

\* The lines of io.StringIO(text) end at "\n"; the last line may lack it.
RECURSIVE ParseFrom(_, _, _, _)
ParseFrom(text, i, p, delim) ==
    IF p.st = "ERROR" THEN p
    ELSE IF i > Len(text)
    THEN EndOfInput(IF Len(text) > 0 /\ text[Len(text)] # LF THEN ProcessEOL(p) ELSE p)
    ELSE LET q == ProcessChar(p, text[i], delim)
         IN  ParseFrom(text, i + 1,
                       IF text[i] = LF /\ q.st # "ERROR" THEN ProcessEOL(q) ELSE q,
                       delim)

\* csv.reader(io.StringIO(text), delimiter=delim): the delimiter must be a
\* string of one character.  delim is a text (sequence of characters).
DelimiterOk(delim) == Len(delim) = 1

ParseCsv(text, delim) ==
    IF ~DelimiterOk(delim) THEN [ok |-> FALSE, rows |-> <<>>]
    ELSE LET p == ParseFrom(text, 1, ParserStart, delim[1])
         IN  [ok |-> p.st # "ERROR", rows |-> IF p.st = "ERROR" THEN <<>> ELSE p.rows]

\* ---------------------------------------------------------- csv.writer
RECURSIVE Contains(_, _)
Contains(text, chars) ==
    IF text = <<>> THEN FALSE
    ELSE Head(text) \in chars \/ Contains(Tail(text), chars)

RECURSIVE DoubleQuotes(_)
DoubleQuotes(text) ==
    IF text = <<>> THEN <<>>
    ELSE (IF Head(text) = QUOTE THEN <<QUOTE, QUOTE>> ELSE <<Head(text)>>)
         \o DoubleQuotes(Tail(text))

\* A variant that never quotes a field.
WriteFieldPlain(text, delim, lone) == text

\* QUOTE_MINIMAL: a field is quoted when it holds the delimiter, the quote
\* character or a character of the line terminator; a lone empty field too.
WriteField(text, delim, lone) ==
    IF Contains(text, {delim, QUOTE, CR, LF}) \/ (lone /\ text = <<>>)
    THEN <<QUOTE>> \o DoubleQuotes(text) \o <<QUOTE>>
    ELSE text

RECURSIVE JoinFields(_, _, _)
JoinFields(row, delim, lone) ==
    IF row = <<>> THEN <<>>
    ELSE WriteField(Head(row), delim, lone)
         \o (IF Len(row) > 1 THEN <<delim>> ELSE <<>>)
         \o JoinFields(Tail(row), delim, FALSE)

\* csv_writer.writerow(row)
WriteRow(row, delim) == JoinFields(row, delim, Len(row) = 1) \o <<CR, LF>>

RECURSIVE WriteRows(_, _)
WriteRows(rows, delim) ==
    IF rows = <<>> THEN <<>>
    ELSE WriteRow(Head(rows), delim) \o WriteRows(Tail(rows), delim)

\* ------------------------------------------------------------ workbook
\* The file at the workbook path: absent, or a saved workbook.  A workbook
\* is its sheets in order (title, cells) and the position of the active
\* sheet (1-based).  cells maps <<row, column>> to the text written there.
NoFile == [exists |-> FALSE, sheets |-> <<>>, active |-> 1]

NoCells == [p \in {} |-> <<>>]

\* None as a sheet name, and None as a cell value read from a sheet
NoName == <<>>
NONE == <<"<None>">>

\* Workbook() followed by del wb["Sheet"]: no sheet is left
NewWorkbook == [exists |-> TRUE, sheets |-> <<>>, active |-> 1]

\* wb.sheetnames
sheetnames(wb) == [i \in 1..Len(wb.sheets) |-> wb.sheets[i].title]

InSheetnames(name, wb) == \E i \in 1..Len(wb.sheets) : wb.sheets[i].title = name

\* the position of wb[name]
SheetIndex(wb, name) == CHOOSE i \in 1..Len(wb.sheets) : wb.sheets[i].title = name

\* str.lower() of a sheet name, on the names the inputs can produce
LowerBase(s) ==
    IF s = "Data" THEN "data"
    ELSE IF s = "CSV_Import" THEN "csv_import"
    ELSE s

Lower(name) == IF name = <<>> THEN name ELSE [name EXCEPT ![1] = LowerBase(@)]

SetMax(S) == CHOOSE m \in S : \A x \in S : x <= m

\* the number that directly follows value, without regard to case, at the
\* start of title; 0 when there is none
DirectNumber(title, value) ==
    IF /\ Len(title) > Len(value)
       /\ Lower(SubSeq(title, 1, Len(value))) = Lower(value)
       /\ title[Len(value) + 1] < 0
    THEN -title[Len(value) + 1] ELSE 0

\* The workbook engine's avoid_duplicate_name(wb.sheetnames, value), applied
\* when a sheet gets its title: a title that equals an existing one without
\* regard to case gets the next number after the highest number that
\* directly follows the title in an existing sheet name.
avoid_duplicate_name(wb, value) ==
    IF \E i \in 1..Len(wb.sheets) : Lower(wb.sheets[i].title) = Lower(value)
    THEN Append(value, -(SetMax({0} \cup {DirectNumber(wb.sheets[i].title, value)
                                           : i \in 1..Len(wb.sheets)}) + 1))
    ELSE value

\* wb.create_sheet(name): the new sheet is appended; the sets bind the
\* workbook and the name to their values
create_sheet(wb, name) ==
    CHOOSE w \in {[b EXCEPT !.sheets = Append(b.sheets, [title |-> avoid_duplicate_name(b, n),
                                                         cells |-> NoCells])]
                    : b \in {wb}, n \in {name}} : TRUE

\* sheet.max_row: 1 for a sheet without cells
max_row(cells) ==
    IF DOMAIN cells = {} THEN 1 ELSE SetMax({p[1] : p \in DOMAIN cells})

\* sheet.max_column: 1 for a sheet without cells
max_column(cells) ==
    IF DOMAIN cells = {} THEN 1 ELSE SetMax({p[2] : p \in DOMAIN cells})

\* sheet.delete_rows(idx, amount): the rows idx .. idx+amount-1 go, the rows
\* below move up by amount
delete_rows(cells, idx, amount) ==
    LET kept == {p \in DOMAIN cells : p[1] < idx \/ p[1] >= idx + amount}
        Moved(p) == IF p[1] < idx THEN p ELSE <<p[1] - amount, p[2]>>
        Back(q) == CHOOSE p \in kept : Moved(p) = q
    IN  [q \in {Moved(p) : p \in kept} |-> cells[Back(q)]]

\* for i, row in enumerate(rows, start): for j, value in enumerate(row, 1):
\*     sheet.cell(row=i, column=j).value = value
WriteCells(cells, rows, start_row) ==
    LET new == UNION {{<<start_row + i - 1, j>> : j \in 1..Len(rows[i])}
                      : i \in 1..Len(rows)}
    IN  [p \in DOMAIN cells \cup new |->
            IF p \in new THEN rows[p[1] - start_row + 1][p[2]] ELSE cells[p]]

\* the value read from a cell: None for a cell never written and for a
\* cell that holds the empty text
CellValue(cells, r, c) ==
    IF <<r, c>> \in DOMAIN cells /\ cells[<<r, c>>] # <<>>
    THEN cells[<<r, c>>] ELSE NONE

\* sheet.iter_rows(values_only=True): the rows 1 .. max_row, each with the
\* columns 1 .. max_column
iter_rows(cells) ==
    [r \in 1..max_row(cells) |->
        [c \in 1..max_column(cells) |-> CellValue(cells, r, c)]]

\* ------------------------------------------------- import_csv_to_excel
\* The file system: whether the parent directory of the path exists, and
\* the file at the path.
\* An outcome is the file system after the call, whether the call raised,
\* the class of the exception, and the returned dicts (one for a single
\* operation, none when it raised).
Raise(fs, error) ==
    [fs |-> fs, raised |-> TRUE, error |-> error, results |-> <<>>]

Return(fs, results) ==
    [fs |-> fs, raised |-> FALSE, error |-> "", results |-> results]

\* A variant that takes the first suffix without looking at the sheet names.
NextCounterFirst(wb, base_name, counter) == counter

\* lines 88-92: counter is raised while "{base_name}_{counter}" is a sheet name
RECURSIVE NextCounter(_, _, _)
NextCounter(wb, base_name, counter) ==
    IF InSheetnames(Append(base_name, counter), wb)
    THEN NextCounter(wb, base_name, counter + 1)
    ELSE counter

\* A variant that, in mode new_sheet, adds a sheet under the name it was
\* given instead of a suffixed one.
TargetSheetSameName(wb, sheet_name, merge_mode) ==
    IF sheet_name = NoName
    THEN IF Len(wb.sheets) > 0
         THEN [wb |-> wb, idx |-> wb.active, name |-> wb.sheets[wb.active].title]
         ELSE [wb |-> create_sheet(wb, <<"CSV_Import">>), idx |-> 1,
               name |-> <<"CSV_Import">>]
    ELSE IF InSheetnames(sheet_name, wb) /\ merge_mode # "new_sheet"
         THEN LET idx == SheetIndex(wb, sheet_name)
              IN  IF merge_mode = "replace"
                  THEN [wb |-> [wb EXCEPT !.sheets[idx].cells =
                                   delete_rows(@, 1, max_row(@))],
                        idx |-> idx, name |-> sheet_name]
                  ELSE [wb |-> wb, idx |-> idx, name |-> sheet_name]
         ELSE [wb |-> [wb EXCEPT !.sheets = Append(wb.sheets, [title |-> sheet_name,
                                                               cells |-> NoCells])],
               idx |-> Len(wb.sheets) + 1, name |-> sheet_name]

\* A variant that, given no name, adds the sheet "CSV_Import" whether the
\* workbook has sheets or not.
TargetSheetAlwaysCreate(wb, sheet_name, merge_mode) ==
    IF sheet_name = NoName
    THEN [wb |-> create_sheet(wb, <<"CSV_Import">>), idx |-> Len(wb.sheets) + 1,
          name |-> <<"CSV_Import">>]
    ELSE IF InSheetnames(sheet_name, wb)
         THEN LET idx == SheetIndex(wb, sheet_name)
              IN  IF merge_mode = "replace"
                  THEN [wb |-> [wb EXCEPT !.sheets[idx].cells =
                                   delete_rows(@, 1, max_row(@))],
                        idx |-> idx, name |-> sheet_name]
                  ELSE IF merge_mode = "new_sheet"
                  THEN LET new_name == Append(sheet_name, NextCounter(wb, sheet_name, 1))
                       IN  [wb |-> create_sheet(wb, new_name),
                            idx |-> Len(wb.sheets) + 1, name |-> new_name]
                  ELSE [wb |-> wb, idx |-> idx, name |-> sheet_name]
         ELSE [wb |-> create_sheet(wb, sheet_name), idx |-> Len(wb.sheets) + 1,
               name |-> sheet_name]

\* lines 66-98: the target sheet.  Gives the workbook, the position of the
\* target sheet in it and actual_sheet_name.
TargetSheet(wb, sheet_name, merge_mode) ==
    IF sheet_name = NoName
    THEN IF Len(wb.sheets) > 0
         THEN [wb |-> wb, idx |-> wb.active, name |-> wb.sheets[wb.active].title]
         ELSE [wb |-> create_sheet(wb, <<"CSV_Import">>), idx |-> 1,
               name |-> <<"CSV_Import">>]
    ELSE IF InSheetnames(sheet_name, wb)
         THEN LET idx == SheetIndex(wb, sheet_name)
              IN  IF merge_mode = "replace"
                  THEN [wb |-> [wb EXCEPT !.sheets[idx].cells =
                                   delete_rows(@, 1, max_row(@))],
                        idx |-> idx, name |-> sheet_name]
                  ELSE IF merge_mode = "new_sheet"
                  THEN LET new_name == Append(sheet_name, NextCounter(wb, sheet_name, 1))
                       IN  [wb |-> create_sheet(wb, new_name),
                            idx |-> Len(wb.sheets) + 1, name |-> new_name]
                  ELSE [wb |-> wb, idx |-> idx, name |-> sheet_name]
         ELSE [wb |-> create_sheet(wb, sheet_name), idx |-> Len(wb.sheets) + 1,
               name |-> sheet_name]

\* A variant that treats every mode without a case of its own as append.
StartRowAppendLike(cells, merge_mode) ==
    IF merge_mode \notin {"replace", "new_sheet"} /\ max_row(cells) > 0
    THEN max_row(cells) + 1 ELSE 1

\* lines 106-109
StartRow(cells, merge_mode) ==
    IF merge_mode = "append" /\ max_row(cells) > 0 THEN max_row(cells) + 1 ELSE 1

\* Variants of the import: one creates the workbook whatever create_if_missing
\* says, one saves the workbook before the CSV text is parsed.
import_csv_to_excel_create(fs, csv_content, sheet_name, delimiter, create_if_missing, merge_mode) ==
    LET fs1 == [fs EXCEPT !.dir = TRUE]
    IN  IF FALSE
        THEN Raise(fs1, "FileOperationError")
        ELSE
        LET wb == IF fs.disk.exists THEN fs.disk ELSE NewWorkbook
            t == TargetSheet(wb, sheet_name, merge_mode)
            parsed == ParseCsv(csv_content, delimiter)
        IN  IF ~parsed.ok THEN Raise(fs1, "FileOperationError")
            ELSE
            LET rows == parsed.rows
                start_row == StartRow(t.wb.sheets[t.idx].cells, merge_mode)
                saved == [t.wb EXCEPT !.sheets[t.idx].cells = WriteCells(@, rows, start_row)]
            IN  Return([fs1 EXCEPT !.disk = saved],
                       <<[success |-> TRUE,
                          message |-> "Imported CSV data",
                          rows_imported |-> Len(rows),
                          columns_imported |-> IF Len(rows) > 0 THEN Len(rows[1]) ELSE 0,
                          sheet_name |-> t.name]>>)

import_csv_to_excel_early_save(fs, csv_content, sheet_name, delimiter, create_if_missing, merge_mode) ==
    LET fs1 == [fs EXCEPT !.dir = TRUE]
    IN  IF ~fs.disk.exists /\ ~create_if_missing
        THEN Raise(fs1, "FileOperationError")
        ELSE
        LET wb == IF fs.disk.exists THEN fs.disk ELSE NewWorkbook
            t == TargetSheet(wb, sheet_name, merge_mode)
            parsed == ParseCsv(csv_content, delimiter)
        IN  IF ~parsed.ok THEN Raise([fs1 EXCEPT !.disk = t.wb], "FileOperationError")
            ELSE
            LET rows == parsed.rows
                start_row == StartRow(t.wb.sheets[t.idx].cells, merge_mode)
                saved == [t.wb EXCEPT !.sheets[t.idx].cells = WriteCells(@, rows, start_row)]
            IN  Return([fs1 EXCEPT !.disk = saved],
                       <<[success |-> TRUE,
                          message |-> "Imported CSV data",
                          rows_imported |-> Len(rows),
                          columns_imported |-> IF Len(rows) > 0 THEN Len(rows[1]) ELSE 0,
                          sheet_name |-> t.name]>>)

\* A variant that reports the width of the last row.
import_csv_to_excel_last_width(fs, csv_content, sheet_name, delimiter, create_if_missing, merge_mode) ==
    LET fs1 == [fs EXCEPT !.dir = TRUE]
    IN  IF ~fs.disk.exists /\ ~create_if_missing
        THEN Raise(fs1, "FileOperationError")
        ELSE
        LET wb == IF fs.disk.exists THEN fs.disk ELSE NewWorkbook
            t == TargetSheet(wb, sheet_name, merge_mode)
            parsed == ParseCsv(csv_content, delimiter)
        IN  IF ~parsed.ok THEN Raise(fs1, "FileOperationError")
            ELSE
            LET rows == parsed.rows
                start_row == StartRow(t.wb.sheets[t.idx].cells, merge_mode)
                saved == [t.wb EXCEPT !.sheets[t.idx].cells = WriteCells(@, rows, start_row)]
            IN  Return([fs1 EXCEPT !.disk = saved],
                       <<[success |-> TRUE,
                          message |-> "Imported CSV data",
                          rows_imported |-> Len(rows),
                          columns_imported |-> IF Len(rows) > 0 THEN Len(rows[Len(rows)]) ELSE 0,
                          sheet_name |-> t.name]>>)

import_csv_to_excel(fs, csv_content, sheet_name, delimiter, create_if_missing, merge_mode) ==
    LET fs1 == [fs EXCEPT !.dir = TRUE]
    IN  IF ~fs.disk.exists /\ ~create_if_missing
        THEN Raise(fs1, "FileOperationError")
        ELSE
        LET wb == IF fs.disk.exists THEN fs.disk ELSE NewWorkbook
            t == TargetSheet(wb, sheet_name, merge_mode)
            parsed == ParseCsv(csv_content, delimiter)
        IN  IF ~parsed.ok THEN Raise(fs1, "FileOperationError")
            ELSE
            LET rows == parsed.rows
                start_row == StartRow(t.wb.sheets[t.idx].cells, merge_mode)
                saved == [t.wb EXCEPT !.sheets[t.idx].cells = WriteCells(@, rows, start_row)]
            IN  Return([fs1 EXCEPT !.disk = saved],
                       <<[success |-> TRUE,
                          message |-> "Imported CSV data",
                          rows_imported |-> Len(rows),
                          columns_imported |-> IF Len(rows) > 0 THEN Len(rows[1]) ELSE 0,
                          sheet_name |-> t.name]>>)

\* ---------------------------------------------- export_worksheet_to_csv
\* A variant that keeps every row.
NonEmptyRowsAll(rows) == rows

\* lines 174-179: the rows with a cell that is not None
RECURSIVE NonEmptyRows(_)
NonEmptyRows(rows) ==
    IF rows = <<>> THEN <<>>
    ELSE (IF \E c \in 1..Len(Head(rows)) : Head(rows)[c] # NONE
          THEN <<Head(rows)>> ELSE <<>>) \o NonEmptyRows(Tail(rows))

\* line 197
ProcessedRow(row) == [c \in 1..Len(row) |-> IF row[c] = NONE THEN <<>> ELSE row[c]]

\* A variant that falls back to the active sheet when the name is absent.
ExportLookupFallback(wb, sheet_name) ==
    IF sheet_name # NoName /\ InSheetnames(sheet_name, wb)
    THEN [found |-> TRUE, idx |-> SheetIndex(wb, sheet_name)]
    ELSE [found |-> TRUE, idx |-> wb.active]

\* lines 164-172: the sheet to export; nothing is created
ExportLookup(wb, sheet_name) ==
    IF sheet_name = NoName THEN [found |-> TRUE, idx |-> wb.active]
    ELSE IF InSheetnames(sheet_name, wb)
    THEN [found |-> TRUE, idx |-> SheetIndex(wb, sheet_name)]
    ELSE [found |-> FALSE, idx |-> 0]

\* A variant that creates the parent directory of the path, as the import does.
export_worksheet_to_csv_mkdir(fs, sheet_name, delimiter, include_header_row) ==
    LET fs1 == [fs EXCEPT !.dir = TRUE]
    IN
    IF ~fs.disk.exists THEN Raise(fs1, "FileOperationError")
    ELSE
    LET wb == fs.disk
        sheet == ExportLookup(wb, sheet_name)
    IN  IF ~sheet.found THEN Raise(fs1, "FileOperationError")
        ELSE
        LET actual_sheet_name == wb.sheets[sheet.idx].title
            data == NonEmptyRows(iter_rows(wb.sheets[sheet.idx].cells))
        IN  IF data = <<>>
            THEN Return(fs1, <<[success |-> TRUE, csv_content |-> <<>>,
                               message |-> "Exported empty sheet",
                               rows_exported |-> 0, sheet_name |-> actual_sheet_name]>>)
            ELSE IF ~DelimiterOk(delimiter) THEN Raise(fs1, "FileOperationError")
            ELSE Return(fs1, <<[success |-> TRUE,
                               message |-> "Exported to CSV",
                               csv_content |-> WriteRows([r \in 1..Len(data) |->
                                                  ProcessedRow(data[r])], delimiter[1]),
                               rows_exported |-> Len(data),
                               sheet_name |-> actual_sheet_name]>>)

\* A variant that leaves the first row out when include_header_row is false.
export_worksheet_to_csv_headerless(fs, sheet_name, delimiter, include_header_row) ==
    IF ~fs.disk.exists THEN Raise(fs, "FileOperationError")
    ELSE
    LET wb == fs.disk
        sheet == ExportLookup(wb, sheet_name)
    IN  IF ~sheet.found THEN Raise(fs, "FileOperationError")
        ELSE
        LET actual_sheet_name == wb.sheets[sheet.idx].title
            all == NonEmptyRows(iter_rows(wb.sheets[sheet.idx].cells))
            data == IF include_header_row \/ all = <<>> THEN all ELSE Tail(all)
        IN  IF data = <<>>
            THEN Return(fs, <<[success |-> TRUE, csv_content |-> <<>>,
                               message |-> "Exported empty sheet",
                               rows_exported |-> 0, sheet_name |-> actual_sheet_name]>>)
            ELSE IF ~DelimiterOk(delimiter) THEN Raise(fs, "FileOperationError")
            ELSE Return(fs, <<[success |-> TRUE,
                               message |-> "Exported to CSV",
                               csv_content |-> WriteRows([r \in 1..Len(data) |->
                                                  ProcessedRow(data[r])], delimiter[1]),
                               rows_exported |-> Len(data),
                               sheet_name |-> actual_sheet_name]>>)

\* A variant that raises when no row is left to export.
export_worksheet_to_csv_strict(fs, sheet_name, delimiter, include_header_row) ==
    IF ~fs.disk.exists THEN Raise(fs, "FileOperationError")
    ELSE
    LET wb == fs.disk
        sheet == ExportLookup(wb, sheet_name)
    IN  IF ~sheet.found THEN Raise(fs, "FileOperationError")
        ELSE
        LET actual_sheet_name == wb.sheets[sheet.idx].title
            data == NonEmptyRows(iter_rows(wb.sheets[sheet.idx].cells))
        IN  IF data = <<>> \/ ~DelimiterOk(delimiter) THEN Raise(fs, "FileOperationError")
            ELSE Return(fs, <<[success |-> TRUE,
                               message |-> "Exported to CSV",
                               csv_content |-> WriteRows([r \in 1..Len(data) |->
                                                  ProcessedRow(data[r])], delimiter[1]),
                               rows_exported |-> Len(data),
                               sheet_name |-> actual_sheet_name]>>)

export_worksheet_to_csv(fs, sheet_name, delimiter, include_header_row) ==
    IF ~fs.disk.exists THEN Raise(fs, "FileOperationError")
    ELSE
    LET wb == fs.disk
        sheet == ExportLookup(wb, sheet_name)
    IN  IF ~sheet.found THEN Raise(fs, "FileOperationError")
        ELSE
        LET actual_sheet_name == wb.sheets[sheet.idx].title
            data == NonEmptyRows(iter_rows(wb.sheets[sheet.idx].cells))
        IN  IF data = <<>>
            THEN Return(fs, <<[success |-> TRUE, csv_content |-> <<>>,
                               message |-> "Exported empty sheet",
                               rows_exported |-> 0, sheet_name |-> actual_sheet_name]>>)
            ELSE IF ~DelimiterOk(delimiter) THEN Raise(fs, "FileOperationError")
            ELSE Return(fs, <<[success |-> TRUE,
                               message |-> "Exported to CSV",
                               csv_content |-> WriteRows([r \in 1..Len(data) |->
                                                  ProcessedRow(data[r])], delimiter[1]),
                               rows_exported |-> Len(data),
                               sheet_name |-> actual_sheet_name]>>)

\* ------------------------------------------ bulk_import_csv_to_excel
\* One dict of results per item, in the order of the items.  An item that
\* raises leaves the file as it was and a failed entry; create_if_missing
\* is switched off after an item that was imported.
\* Variants of the loop, each with one slip: the results are collected in
\* reverse, and the loop ends at the first item that raises.
RECURSIVE BulkImportLoopReversed(_, _, _, _)
BulkImportLoopReversed(fs, items, create_if_missing, results) ==
    IF items = <<>> THEN Return(fs, results)
    ELSE LET csv_data == Head(items)
             o == import_csv_to_excel(fs, csv_data.csv_content, csv_data.sheet_name,
                                      csv_data.delimiter, create_if_missing,
                                      csv_data.merge_mode)
         IN  IF o.raised
             THEN BulkImportLoopReversed(o.fs, Tail(items), create_if_missing,
                     <<[success |-> FALSE, sheet_name |-> csv_data.sheet_name,
                        message |-> "Failed to import CSV"]>> \o results)
             ELSE BulkImportLoopReversed(o.fs, Tail(items), FALSE,
                     <<[success |-> TRUE,
                        sheet_name |-> o.results[1].sheet_name,
                        rows_imported |-> o.results[1].rows_imported,
                        columns_imported |-> o.results[1].columns_imported,
                        message |-> o.results[1].message]>> \o results)

RECURSIVE BulkImportLoopAbort(_, _, _, _)
BulkImportLoopAbort(fs, items, create_if_missing, results) ==
    IF items = <<>> THEN Return(fs, results)
    ELSE LET csv_data == Head(items)
             o == import_csv_to_excel(fs, csv_data.csv_content, csv_data.sheet_name,
                                      csv_data.delimiter, create_if_missing,
                                      csv_data.merge_mode)
         IN  IF o.raised
             THEN Return(o.fs, Append(results, [success |-> FALSE,
                                                sheet_name |-> csv_data.sheet_name,
                                                message |-> "Failed to import CSV"]))
             ELSE BulkImportLoopAbort(o.fs, Tail(items), FALSE,
                     Append(results, [success |-> TRUE,
                                      sheet_name |-> o.results[1].sheet_name,
                                      rows_imported |-> o.results[1].rows_imported,
                                      columns_imported |-> o.results[1].columns_imported,
                                      message |-> o.results[1].message]))

\* A variant that turns create_if_missing off after every item, failed or not.
RECURSIVE BulkImportLoopForced(_, _, _, _)
BulkImportLoopForced(fs, items, create_if_missing, results) ==
    IF items = <<>> THEN Return(fs, results)
    ELSE LET csv_data == Head(items)
             o == import_csv_to_excel(fs, csv_data.csv_content, csv_data.sheet_name,
                                      csv_data.delimiter, create_if_missing,
                                      csv_data.merge_mode)
         IN  IF o.raised
             THEN BulkImportLoopForced(o.fs, Tail(items), FALSE,
                     Append(results, [success |-> FALSE,
                                      sheet_name |-> csv_data.sheet_name,
                                      message |-> "Failed to import CSV"]))
             ELSE BulkImportLoopForced(o.fs, Tail(items), FALSE,
                     Append(results, [success |-> TRUE,
                                      sheet_name |-> o.results[1].sheet_name,
                                      rows_imported |-> o.results[1].rows_imported,
                                      columns_imported |-> o.results[1].columns_imported,
                                      message |-> o.results[1].message]))

\* A variant in which the items that follow do not see what an item has saved.
RECURSIVE BulkImportLoopStale(_, _, _, _)
BulkImportLoopStale(fs, items, create_if_missing, results) ==
    IF items = <<>> THEN Return(fs, results)
    ELSE LET csv_data == Head(items)
             o == import_csv_to_excel(fs, csv_data.csv_content, csv_data.sheet_name,
                                      csv_data.delimiter, create_if_missing,
                                      csv_data.merge_mode)
         IN  IF o.raised
             THEN BulkImportLoopStale(o.fs, Tail(items), create_if_missing,
                                 Append(results, [success |-> FALSE,
                                                  sheet_name |-> csv_data.sheet_name,
                                                  message |-> "Failed to import CSV"]))
             ELSE BulkImportLoopStale(IF Tail(items) = <<>> THEN o.fs ELSE fs,
                                 Tail(items), create_if_missing,
                                 Append(results, [success |-> TRUE,
                                                  sheet_name |-> o.results[1].sheet_name,
                                                  rows_imported |-> o.results[1].rows_imported,
                                                  columns_imported |-> o.results[1].columns_imported,
                                                  message |-> o.results[1].message]))

RECURSIVE BulkImportLoop(_, _, _, _)
BulkImportLoop(fs, items, create_if_missing, results) ==
    IF items = <<>> THEN Return(fs, results)
    ELSE LET csv_data == Head(items)
             Step(o) ==
                 IF o.raised
                 THEN BulkImportLoop(o.fs, Tail(items), create_if_missing,
                                     Append(results, [success |-> FALSE,
                                                      sheet_name |-> csv_data.sheet_name,
                                                      message |-> "Failed to import CSV"]))
                 ELSE BulkImportLoop(o.fs, Tail(items), FALSE,
                                     Append(results, [success |-> TRUE,
                                                      sheet_name |-> o.results[1].sheet_name,
                                                      rows_imported |-> o.results[1].rows_imported,
                                                      columns_imported |-> o.results[1].columns_imported,
                                                      message |-> o.results[1].message]))
         IN  CHOOSE t \in {Step(o) : o \in {import_csv_to_excel(
                               fs, csv_data.csv_content, csv_data.sheet_name,
                               csv_data.delimiter, create_if_missing,
                               csv_data.merge_mode)}} : TRUE

bulk_import_csv_to_excel(fs, csv_data_list, create_if_missing) ==
    BulkImportLoop(fs, csv_data_list, create_if_missing, <<>>)

\* ------------------------------------- bulk_export_worksheets_to_csv
RECURSIVE BulkExportLoop(_, _, _)
BulkExportLoop(fs, items, results) ==
    IF items = <<>> THEN Return(fs, results)
    ELSE LET worksheet_data == Head(items)
             Step(o) ==
                 IF o.raised
                 THEN BulkExportLoop(o.fs, Tail(items),
                                     Append(results, [success |-> FALSE,
                                                      sheet_name |-> worksheet_data.sheet_name,
                                                      message |-> "Failed to export worksheet"]))
                 ELSE BulkExportLoop(o.fs, Tail(items),
                                     Append(results, [success |-> TRUE,
                                                      sheet_name |-> o.results[1].sheet_name,
                                                      rows_exported |-> o.results[1].rows_exported,
                                                      columns_exported |-> 0,
                                                      csv_content |-> o.results[1].csv_content,
                                                      message |-> o.results[1].message]))
         IN  CHOOSE t \in {Step(o) : o \in {export_worksheet_to_csv(
                               fs, worksheet_data.sheet_name, worksheet_data.delimiter,
                               worksheet_data.include_header_row)}} : TRUE

\* A variant that does not look for the file before the loop.
bulk_export_worksheets_to_csv_unchecked(fs, worksheet_list) ==
    BulkExportLoop(fs, worksheet_list, <<>>)

bulk_export_worksheets_to_csv(fs, worksheet_list) ==
    IF ~fs.disk.exists THEN Raise(fs, "FileOperationError")
    ELSE BulkExportLoop(fs, worksheet_list, <<>>)

\* ------------------------------------------------------------ base64
\* Bytes are the integers 0 .. 255.  A payload is a text.
B64Chars ==
 <<
    "A", "B", "C", "D", "E", "F", "G", "H", "I", "J", "K", "L", "M", "N",
    "O", "P", "Q", "R", "S", "T", "U", "V", "W", "X", "Y", "Z", "a", "b",
    "c", "d", "e", "f", "g", "h", "i", "j", "k", "l", "m", "n", "o", "p",
    "q", "r", "s", "t", "u", "v", "w", "x", "y", "z", "0", "1", "2", "3",
    "4", "5", "6", "7", "8", "9", "+", "/"
 >>

PAD == "="

\* the characters with the codes 32 .. 126
Printable ==
 <<
    " ", "!", "\"", "#", "$", "%", "&", "'", "(", ")", "*", "+", ",", "-",
    ".", "/", "0", "1", "2", "3", "4", "5", "6", "7", "8", "9", ":", ";",
    "<", "=", ">", "?", "@", "A", "B", "C", "D", "E", "F", "G", "H", "I",
    "J", "K", "L", "M", "N", "O", "P", "Q", "R", "S", "T", "U", "V", "W",
    "X", "Y", "Z", "[", "\\", "]", "^", "_", "<96>", "a", "b", "c", "d", "e",
    "f", "g", "h", "i", "j", "k", "l", "m", "n", "o", "p", "q", "r", "s",
    "t", "u", "v", "w", "x", "y", "z", "{", "|", "}", "~"
 >>

\* the character with code n < 128 (a character that cannot be written in
\* a string here is named by its code)
Chr(n) ==
    IF n >= 32 /\ n <= 126 THEN Printable[n - 31]
    ELSE IF n = 10 THEN LF
    ELSE IF n = 13 THEN CR
    ELSE "<" \o ToString(n) \o ">"

AsciiTable == [n \in 0..127 |-> Chr(n)]

AsciiChars == {AsciiTable[n] : n \in 0..127}

IsAscii(c) == c \in AsciiChars

Ord(c) == CHOOSE n \in 0..127 : AsciiTable[n] = c

\* str.encode('utf-8') of a text of characters below 128
Utf8Encode(text) == [i \in 1..Len(text) |-> Ord(text[i])]

\* bytes.decode('utf-8'): a byte below 128 is a character, the bytes
\* 0xC2 .. 0xDF start a character of two bytes, and every other byte the
\* model feeds it is malformed
RECURSIVE Utf8Decode(_)
Utf8Decode(bytes) ==
    IF bytes = <<>> THEN [ok |-> TRUE, text |-> <<>>]
    ELSE IF Head(bytes) < 128
    THEN LET rest == Utf8Decode(Tail(bytes))
         IN  [ok |-> rest.ok, text |-> <<Chr(Head(bytes))>> \o rest.text]
    ELSE IF /\ Head(bytes) >= 194 /\ Head(bytes) <= 223 /\ Len(bytes) >= 2
            /\ bytes[2] >= 128 /\ bytes[2] <= 191
    THEN LET rest == Utf8Decode(Tail(Tail(bytes)))
             code == (Head(bytes) - 192) * 64 + (bytes[2] - 128)
         IN  [ok |-> rest.ok, text |-> <<"<" \o ToString(code) \o ">">> \o rest.text]
    ELSE [ok |-> FALSE, text |-> <<>>]

\* A variant of the encoder that leaves the padding out.
RECURSIVE b64encode_nopad(_)
b64encode_nopad(bytes) ==
    IF bytes = <<>> THEN <<>>
    ELSE IF Len(bytes) = 1
    THEN <<B64Chars[(bytes[1] \div 4) + 1], B64Chars[(bytes[1] % 4) * 16 + 1]>>
    ELSE IF Len(bytes) = 2
    THEN <<B64Chars[(bytes[1] \div 4) + 1],
           B64Chars[(bytes[1] % 4) * 16 + (bytes[2] \div 16) + 1],
           B64Chars[(bytes[2] % 16) * 4 + 1]>>
    ELSE <<B64Chars[(bytes[1] \div 4) + 1],
           B64Chars[(bytes[1] % 4) * 16 + (bytes[2] \div 16) + 1],
           B64Chars[(bytes[2] % 16) * 4 + (bytes[3] \div 64) + 1],
           B64Chars[(bytes[3] % 64) + 1]>>
         \o b64encode_nopad(SubSeq(bytes, 4, Len(bytes)))

\* base64.b64encode
RECURSIVE b64encode(_)
b64encode(bytes) ==
    IF bytes = <<>> THEN <<>>
    ELSE IF Len(bytes) = 1
    THEN <<B64Chars[(bytes[1] \div 4) + 1], B64Chars[(bytes[1] % 4) * 16 + 1], PAD, PAD>>
    ELSE IF Len(bytes) = 2
    THEN <<B64Chars[(bytes[1] \div 4) + 1],
           B64Chars[(bytes[1] % 4) * 16 + (bytes[2] \div 16) + 1],
           B64Chars[(bytes[2] % 16) * 4 + 1], PAD>>
    ELSE <<B64Chars[(bytes[1] \div 4) + 1],
           B64Chars[(bytes[1] % 4) * 16 + (bytes[2] \div 16) + 1],
           B64Chars[(bytes[2] % 16) * 4 + (bytes[3] \div 64) + 1],
           B64Chars[(bytes[3] % 64) + 1]>>
         \o b64encode(SubSeq(bytes, 4, Len(bytes)))

B64Alphabet == {B64Chars[i] : i \in 1..64}

IsB64Char(c) == c \in B64Alphabet

B64Value(c) == (CHOOSE i \in 1..64 : B64Chars[i] = c) - 1

\* binascii.a2b_base64 without strict mode, as base64.b64decode(s) calls
\* it: a character outside the alphabet is skipped, a pad sequence that
\* completes a quad ends the input, and an incomplete quad is an error.
\* d holds quad_pos, leftchar, pads and the bytes decoded so far.
RECURSIVE A2bLoop(_, _, _)
A2bLoop(payload, i, d) ==
    IF i > Len(payload)
    THEN [ok |-> d.quad_pos = 0, bytes |-> d.bytes]
    ELSE LET c == payload[i]
         IN  IF c = PAD
             THEN IF d.quad_pos >= 2 /\ d.quad_pos + d.pads + 1 >= 4
                  THEN [ok |-> TRUE, bytes |-> d.bytes]
                  ELSE A2bLoop(payload, i + 1,
                               IF d.quad_pos >= 2 THEN [d EXCEPT !.pads = @ + 1] ELSE d)
             ELSE IF ~IsB64Char(c) THEN A2bLoop(payload, i + 1, d)
             ELSE LET v == B64Value(c)
                  IN  A2bLoop(payload, i + 1,
                        CASE d.quad_pos = 0 ->
                                [d EXCEPT !.quad_pos = 1, !.leftchar = v, !.pads = 0]
                          [] d.quad_pos = 1 ->
                                [d EXCEPT !.quad_pos = 2, !.pads = 0,
                                          !.bytes = Append(@, d.leftchar * 4 + (v \div 16)),
                                          !.leftchar = v % 16]
                          [] d.quad_pos = 2 ->
                                [d EXCEPT !.quad_pos = 3, !.pads = 0,
                                          !.bytes = Append(@, d.leftchar * 16 + (v \div 4)),
                                          !.leftchar = v % 4]
                          [] OTHER ->
                                [d EXCEPT !.quad_pos = 0, !.pads = 0,
                                          !.bytes = Append(@, d.leftchar * 64 + v),
                                          !.leftchar = 0])

\* base64.b64decode(s) for a str s: s must be ASCII
b64decode(payload) ==
    IF \E i \in 1..Len(payload) : ~IsAscii(payload[i])
    THEN [ok |-> FALSE, bytes |-> <<>>]
    ELSE A2bLoop(payload, 1, [quad_pos |-> 0, leftchar |-> 0, pads |-> 0, bytes |-> <<>>])

\* lines 236-237 and 387-388: base64.b64decode(..).decode('utf-8')
DecodePayload(payload) ==
    LET b == b64decode(payload)
    IN  IF ~b.ok THEN [ok |-> FALSE, text |-> <<>>] ELSE Utf8Decode(b.bytes)

\* lines 277-278 and 512-513: base64.b64encode(text.encode('utf-8')).decode('utf-8')
EncodeText(text) == b64encode(Utf8Encode(text))

\* ------------------------------------------------ the base64 variants
import_csv_file_base64(fs, csv_content_base64, sheet_name, delimiter, create_if_missing, merge_mode) ==
    LET Imported64(d) ==
            IF ~d.ok THEN Raise(fs, "FileOperationError")
            ELSE LET Wrapped(o) ==
                         IF o.raised THEN Raise(o.fs, "FileOperationError") ELSE o
                 IN  CHOOSE t \in {Wrapped(o) : o \in {import_csv_to_excel(
                                       fs, d.text, sheet_name, delimiter,
                                       create_if_missing, merge_mode)}} : TRUE
    IN  CHOOSE t \in {Imported64(d) : d \in {DecodePayload(csv_content_base64)}} : TRUE

export_worksheet_to_csv_base64(fs, sheet_name, delimiter, include_header_row) ==
    LET Wrapped(o) ==
            IF o.raised THEN Raise(o.fs, "FileOperationError")
            ELSE Return(o.fs, <<[success |-> TRUE,
                                 csv_content |-> o.results[1].csv_content,
                                 csv_content_base64 |-> EncodeText(o.results[1].csv_content),
                                 rows_exported |-> o.results[1].rows_exported,
                                 sheet_name |-> o.results[1].sheet_name,
                                 message |-> o.results[1].message]>>)
    IN  CHOOSE t \in {Wrapped(o) : o \in {export_worksheet_to_csv(
                          fs, sheet_name, delimiter, include_header_row)}} : TRUE

\* lines 384-405: the payloads are decoded first; the first one that fails
\* ends the call with a single failed entry
RECURSIVE DecodeItems(_, _)
DecodeItems(items, decoded_data_list) ==
    IF items = <<>> THEN [ok |-> TRUE, list |-> decoded_data_list, sheet_name |-> NoName]
    ELSE LET csv_data == Head(items)
             d == DecodePayload(csv_data.csv_content_base64)
         IN  IF ~d.ok
             THEN [ok |-> FALSE, list |-> <<>>, sheet_name |-> csv_data.sheet_name]
             ELSE DecodeItems(Tail(items),
                     Append(decoded_data_list,
                            [csv_content |-> d.text,
                             sheet_name |-> csv_data.sheet_name,
                             delimiter |-> csv_data.delimiter,
                             merge_mode |-> csv_data.merge_mode]))

\* A variant that decodes each payload when its item's turn comes: the items
\* before the first payload that fails are imported.
RECURSIVE bulk_import_csv_file_base64_lazy(_, _, _)
bulk_import_csv_file_base64_lazy(fs, csv_data_list, create_if_missing) ==
    IF csv_data_list = <<>> THEN Return(fs, <<>>)
    ELSE LET csv_data == Head(csv_data_list)
             d == DecodePayload(csv_data.csv_content_base64)
         IN  IF ~d.ok
             THEN Return(fs, <<[success |-> FALSE, sheet_name |-> csv_data.sheet_name,
                                message |-> "Failed to decode base64 CSV"]>>)
             ELSE LET o == bulk_import_csv_to_excel(fs,
                               <<[csv_content |-> d.text,
                                  sheet_name |-> csv_data.sheet_name,
                                  delimiter |-> csv_data.delimiter,
                                  merge_mode |-> csv_data.merge_mode]>>,
                               create_if_missing)
                      rest == bulk_import_csv_file_base64_lazy(o.fs, Tail(csv_data_list),
                                 create_if_missing /\ ~o.results[1].success)
                  IN  IF /\ Len(rest.results) = 1
                         /\ rest.results[1].message = "Failed to decode base64 CSV"
                      THEN rest
                      ELSE Return(rest.fs, o.results \o rest.results)

bulk_import_csv_file_base64(fs, csv_data_list, create_if_missing) ==
    LET d == DecodeItems(csv_data_list, <<>>)
    IN  IF ~d.ok
        THEN Return(fs, <<[success |-> FALSE, sheet_name |-> d.sheet_name,
                           message |-> "Failed to decode base64 CSV"]>>)
        ELSE bulk_import_csv_to_excel(fs, d.list, create_if_missing)

\* A variant that leaves the plain text in the entry.
EncodeResultKeep(result) ==
    IF result.success
    THEN [success |-> TRUE,
          sheet_name |-> result.sheet_name,
          rows_exported |-> result.rows_exported,
          columns_exported |-> result.columns_exported,
          csv_content |-> result.csv_content,
          csv_content_base64 |-> EncodeText(result.csv_content),
          message |-> result.message]
    ELSE result

\* lines 510-519
EncodeResult(result) ==
    IF result.success
    THEN [success |-> TRUE,
          sheet_name |-> result.sheet_name,
          rows_exported |-> result.rows_exported,
          columns_exported |-> result.columns_exported,
          csv_content_base64 |-> EncodeText(result.csv_content),
          message |-> result.message]
    ELSE result

bulk_export_worksheets_to_csv_base64(fs, worksheet_list) ==
    LET o == bulk_export_worksheets_to_csv(fs, worksheet_list)
    IN  IF o.raised THEN Raise(o.fs, "FileOperationError")
        ELSE Return(o.fs, [i \in 1..Len(o.results) |-> EncodeResult(o.results[i])])

\* ------------------------------------------------ the tools of server.py
\* Each tool calls the base64 operation of the same purpose and returns a
\* dict; an exception of the operation becomes a dict with success False.
\* A tool's outcome has the dict as its only result and never raises.
\* A variant that lets the exception of the operation through.
ToolFailedRaise(fs, message) == Raise(fs, "FileOperationError")

ToolFailed(fs, message) ==
    Return(fs, <<[success |-> FALSE, message |-> message]>>)

\* A variant that counts every result.
SuccessfulAll(results) == Len(results)

\* sum(1 for result in results if result.get("success", False))
Successful(results) == Cardinality({i \in 1..Len(results) : results[i].success})

\* f"Processed {total} CSV {what} ({successful} successful, {total - successful} failed)"
Processed(what, total, successful) ==
    "Processed " \o ToString(total) \o " CSV " \o what \o " (" \o ToString(successful)
        \o " successful, " \o ToString(total - successful) \o " failed)"

\* server.py 684-739
import_csv(fs, csv_content_base64, sheet_name, delimiter, create_if_missing, merge_mode) ==
    LET Wrapped(o) ==
            IF o.raised THEN ToolFailed(o.fs, "CSV import failed")
            ELSE Return(o.fs, <<[success |-> TRUE,
                                 message |-> o.results[1].message,
                                 rows_imported |-> o.results[1].rows_imported,
                                 columns_imported |-> o.results[1].columns_imported,
                                 sheet_name |-> o.results[1].sheet_name]>>)
    IN  CHOOSE t \in {Wrapped(o) : o \in {import_csv_file_base64(
                          fs, csv_content_base64, sheet_name, delimiter,
                          create_if_missing, merge_mode)}} : TRUE

\* server.py 741-789
tool_export_worksheet_to_csv(fs, sheet_name, delimiter, include_header_row) ==
    LET Wrapped(o) ==
            IF o.raised THEN ToolFailed(o.fs, "CSV export failed")
            ELSE Return(o.fs, <<[success |-> TRUE,
                                 message |-> o.results[1].message,
                                 csv_content_base64 |-> o.results[1].csv_content_base64,
                                 rows_exported |-> o.results[1].rows_exported,
                                 sheet_name |-> o.results[1].sheet_name]>>)
    IN  CHOOSE t \in {Wrapped(o) : o \in {export_worksheet_to_csv_base64(
                          fs, sheet_name, delimiter, include_header_row)}} : TRUE

\* server.py 791-843; the set binds the outcome of the operation to a value
bulk_import_csv(fs, csv_data_list, create_if_missing) ==
    LET Wrapped(o) ==
            IF o.raised THEN ToolFailed(o.fs, "Bulk CSV import failed")
            ELSE LET results == o.results
                     successful == Successful(results)
                     total == Len(results)
                 IN  Return(o.fs, <<[success |-> TRUE,
                                     message |-> Processed("imports", total, successful),
                                     results |-> results]>>)
    IN  CHOOSE t \in {Wrapped(o) : o \in {bulk_import_csv_file_base64(
                                              fs, csv_data_list, create_if_missing)}} : TRUE

\* server.py 845-892
tool_bulk_export_worksheets_to_csv(fs, worksheet_list) ==
    LET Wrapped(o) ==
            IF o.raised THEN ToolFailed(o.fs, "Bulk CSV export failed")
            ELSE LET results == o.results
                     successful == Successful(results)
                     total == Len(results)
                 IN  Return(o.fs, <<[success |-> TRUE,
                                     message |-> Processed("exports", total, successful),
                                     results |-> results]>>)
    IN  CHOOSE t \in {Wrapped(o) : o \in {bulk_export_worksheets_to_csv_base64(
                                              fs, worksheet_list)}} : TRUE

\* ------------------------------------------------ the endpoints of web.py
\* An endpoint calls the tool of the same purpose inside one try block and
\* answers with a status: its outcome never raises and has one result, the
\* answer, with the status, the body or detail, and the success of the body.
\* raise HTTPException(status_code, detail)
HTTPException(status_code, detail) ==
    [http |-> TRUE, status_code |-> status_code, detail |-> detail]

\* an exception that is not an HTTPException
OtherException == [http |-> FALSE, status_code |-> 0, detail |-> ""]

\* the answer the framework gives for an HTTPException that leaves the endpoint
Answer(fs, e) ==
    Return(fs, <<[status |-> e.status_code, success |-> FALSE, message |-> e.detail]>>)

\* except Exception as e: raise HTTPException(status_code=500, ...); an
\* HTTPException raised in the try block is an Exception and is caught too
ExceptException(fs, e, detail) == Answer(fs, HTTPException(500, detail))

\* the try block after the call of the tool: a result without success
\* raises HTTPException(400), a result with success is returned with 200
Endpoint(o, failed, detail) ==
    IF o.raised THEN ExceptException(o.fs, OtherException, detail)
    ELSE IF ~o.results[1].success
    THEN ExceptException(o.fs, HTTPException(400, failed), detail)
    ELSE Return(o.fs, <<[status |-> 200, success |-> TRUE,
                         message |-> o.results[1].message, body |-> o.results[1]]>>)

\* web.py 230-250
api_import_csv(fs, csv_content_base64, sheet_name, delimiter, merge_mode) ==
    CHOOSE a \in {Endpoint(o, "CSV import failed", "Error importing CSV") :
                    o \in {import_csv(fs, csv_content_base64, sheet_name, delimiter,
                                      TRUE, merge_mode)}} : TRUE

\* web.py 252-270
api_export_csv(fs, sheet_name, delimiter, include_header_row) ==
    CHOOSE a \in {Endpoint(o, "CSV export failed", "Error exporting to CSV") :
                    o \in {tool_export_worksheet_to_csv(fs, sheet_name, delimiter,
                                                        include_header_row)}} : TRUE

\* web.py 272-299
api_bulk_import_csv(fs, csv_data_list, create_if_missing) ==
    CHOOSE a \in {Endpoint(o, "Bulk CSV import failed", "Error in bulk CSV import") :
                    o \in {bulk_import_csv(fs, csv_data_list, create_if_missing)}} : TRUE

\* web.py 301-325
api_bulk_export_csv(fs, worksheet_list) ==
    CHOOSE a \in {Endpoint(o, "Bulk CSV export failed", "Error in bulk CSV export") :
                    o \in {tool_bulk_export_worksheets_to_csv(fs, worksheet_list)}} : TRUE

\* ------------------------------------------------------------- inputs
Data == <<"Data">>
data == <<"data">>

\* CSV texts: nothing, one field, two ragged rows, and one quoted field
\* that holds a quote and a line break
Contents == {<<>>, <<"a">>, <<"a", COMMA, "b", LF, "c">>,
             <<QUOTE, "a", QUOTE, QUOTE, LF, QUOTE>>}
SheetNames == {NoName, Data}
Delimiters == {<<COMMA>>, <<SEMI>>, <<>>}
MergeModes == {"replace", "append", "new_sheet", "update"}

\* payloads: "a" encoded, the same with a character outside the alphabet,
\* with its padding cut, and the encoding of the byte 0xFF
Payloads == {EncodeText(<<"a">>), <<"Y", "!", "Q", "=", "=">>, <<"Y", "Q", "=">>,
             <<"/", "w", "=", "=">>}

ImportItems ==
    [csv_content : {<<"a">>}, sheet_name : {Data}, delimiter : {<<COMMA>>, <<>>},
     merge_mode : {"append", "new_sheet"}]

EncodedItems ==
    [csv_content_base64 : {EncodeText(<<"a">>), <<"Y", "Q", "=">>},
     sheet_name : SheetNames, delimiter : {<<COMMA>>}, merge_mode : {"append"}]

EncodedExportItems ==
    [sheet_name : SheetNames, delimiter : {<<COMMA>>}, include_header_row : {TRUE}]

ExportItems ==
    [sheet_name : SheetNames, delimiter : {<<COMMA>>}, include_header_row : BOOLEAN]

\* byte values for the codec: the lowest and the highest, two letters, and
\* one whose sextets reach the last characters of the alphabet
Bytes == {0, 65, 97, 251, 255}

SeqsUpTo(S, n) == UNION {[1..k -> S] : k \in 0..n}

\* -------------------------------------------------------------- state
VARIABLES
    fs,        \* the file system: [dir, disk]
    prev,      \* the file system before the last call
    call,      \* the last call (operation and arguments); "none" when its
               \* result has been taken
    ret,       \* what the last call returned or raised
    nImports   \* the import calls made so far

vars == <<fs, prev, call, ret, nImports>>

NoCall == [op |-> "none", items |-> <<>>, create_if_missing |-> FALSE]
NoRet == [raised |-> FALSE, error |-> "", results |-> <<>>]

Init ==
    /\ fs \in {[dir |-> d, disk |-> NoFile] : d \in BOOLEAN}
    /\ prev = fs
    /\ call = NoCall
    /\ ret = NoRet
    /\ nImports = 0

Idle == call.op = "none"

Called(op, items, create_if_missing, outcome) ==
    \E o \in {outcome} :
        /\ prev' = fs
        /\ fs' = o.fs
        /\ call' = [op |-> op, items |-> items, create_if_missing |-> create_if_missing]
        /\ ret' = [raised |-> o.raised, error |-> o.error, results |-> o.results]

\* the CSV text of an export that has just returned
Exported ==
    IF call.op = "export_worksheet_to_csv" /\ ~ret.raised
    THEN {ret.results[1].csv_content} ELSE {}

ImportCsv ==
    /\ Idle
    /\ nImports < MaxImports
    /\ \E csv_content \in Contents, sheet_name \in SheetNames,
          delimiter \in Delimiters, create_if_missing \in BOOLEAN,
          merge_mode \in MergeModes :
            Called("import_csv_to_excel",
                   <<[csv_content |-> csv_content, sheet_name |-> sheet_name,
                      delimiter |-> delimiter, merge_mode |-> merge_mode]>>,
                   create_if_missing,
                   import_csv_to_excel(fs, csv_content, sheet_name, delimiter,
                                       create_if_missing, merge_mode))
    /\ nImports' = nImports + 1

\* an import whose sheet name differs from "Data" by case only
ImportCsvCase ==
    /\ Idle
    /\ nImports < MaxImports
    /\ \E merge_mode \in {"replace", "new_sheet"} :
            Called("import_csv_to_excel",
                   <<[csv_content |-> <<"a">>, sheet_name |-> data,
                      delimiter |-> <<COMMA>>, merge_mode |-> merge_mode]>>,
                   TRUE,
                   import_csv_to_excel(fs, <<"a">>, data, <<COMMA>>, TRUE, merge_mode))
    /\ nImports' = nImports + 1

\* the caller imports the CSV text that an export has just returned
ImportExported ==
    /\ nImports < MaxImports
    /\ \E csv_content \in Exported, sheet_name \in SheetNames,
          delimiter \in Delimiters, merge_mode \in {"replace", "append"} :
            Called("import_csv_to_excel",
                   <<[csv_content |-> csv_content, sheet_name |-> sheet_name,
                      delimiter |-> delimiter, merge_mode |-> merge_mode]>>,
                   TRUE,
                   import_csv_to_excel(fs, csv_content, sheet_name, delimiter,
                                       TRUE, merge_mode))
    /\ nImports' = nImports + 1

ExportCsv ==
    /\ Idle
    /\ nImports < MaxImports
    /\ \E sheet_name \in SheetNames, delimiter \in Delimiters,
          include_header_row \in BOOLEAN :
            Called("export_worksheet_to_csv",
                   <<[sheet_name |-> sheet_name, delimiter |-> delimiter,
                      include_header_row |-> include_header_row]>>,
                   FALSE,
                   export_worksheet_to_csv(fs, sheet_name, delimiter, include_header_row))
    /\ UNCHANGED nImports

ImportCsvBase64 ==
    /\ Idle
    /\ nImports < MaxImports
    /\ \E csv_content_base64 \in Payloads, create_if_missing \in BOOLEAN :
            Called("import_csv_file_base64",
                   <<[csv_content_base64 |-> csv_content_base64, sheet_name |-> Data,
                      delimiter |-> <<COMMA>>, merge_mode |-> "replace"]>>,
                   create_if_missing,
                   import_csv_file_base64(fs, csv_content_base64, Data, <<COMMA>>,
                                          create_if_missing, "replace"))
    /\ nImports' = nImports + 1

ExportCsvBase64 ==
    /\ Idle
    /\ nImports < MaxImports
    /\ \E sheet_name \in SheetNames, include_header_row \in BOOLEAN :
            Called("export_worksheet_to_csv_base64",
                   <<[sheet_name |-> sheet_name, delimiter |-> <<COMMA>>,
                      include_header_row |-> include_header_row]>>,
                   FALSE,
                   export_worksheet_to_csv_base64(fs, sheet_name, <<COMMA>>,
                                                  include_header_row))
    /\ UNCHANGED nImports

BulkImport ==
    /\ Idle
    /\ nImports < MaxImports
    /\ \E csv_data_list \in SeqsUpTo(ImportItems, MaxItems), create_if_missing \in BOOLEAN :
            Called("bulk_import_csv_to_excel", csv_data_list, create_if_missing,
                   bulk_import_csv_to_excel(fs, csv_data_list, create_if_missing))
    /\ nImports' = nImports + 1

BulkImportBase64 ==
    /\ Idle
    /\ nImports < MaxImports
    /\ \E csv_data_list \in SeqsUpTo(EncodedItems, MaxItems), create_if_missing \in BOOLEAN :
            Called("bulk_import_csv_file_base64", csv_data_list, create_if_missing,
                   bulk_import_csv_file_base64(fs, csv_data_list, create_if_missing))
    /\ nImports' = nImports + 1

BulkExport ==
    /\ Idle
    /\ nImports < MaxImports
    /\ \E worksheet_list \in SeqsUpTo(ExportItems, MaxItems) :
            Called("bulk_export_worksheets_to_csv", worksheet_list, FALSE,
                   bulk_export_worksheets_to_csv(fs, worksheet_list))
    /\ UNCHANGED nImports

BulkExportBase64 ==
    /\ Idle
    /\ nImports < MaxImports
    /\ \E worksheet_list \in SeqsUpTo(EncodedExportItems, MaxItems) :
            Called("bulk_export_worksheets_to_csv_base64", worksheet_list, FALSE,
                   bulk_export_worksheets_to_csv_base64(fs, worksheet_list))
    /\ UNCHANGED nImports

\* base64.b64encode applied to a byte sequence and base64.b64decode applied
\* to what it gives; the codec does not read the file system
Codec ==
    /\ Idle
    /\ nImports = 0
    /\ \E b \in SeqsUpTo(Bytes, MaxBytes) :
            Called("codec", <<b>>, FALSE,
                   Return(fs, <<[encoded |-> b64encode(b),
                                 decoded |-> b64decode(b64encode(b))]>>))
    /\ UNCHANGED nImports

\* the tools of server.py, called on the same path
ToolImportCsv ==
    /\ Idle
    /\ nImports < MaxImports
    /\ \E csv_content_base64 \in Payloads, delimiter \in {<<COMMA>>, <<>>},
          create_if_missing \in BOOLEAN :
            Called("import_csv",
                   <<[csv_content_base64 |-> csv_content_base64, sheet_name |-> Data,
                      delimiter |-> delimiter, merge_mode |-> "replace"]>>,
                   create_if_missing,
                   import_csv(fs, csv_content_base64, Data, delimiter,
                              create_if_missing, "replace"))
    /\ nImports' = nImports + 1

ToolExportCsv ==
    /\ Idle
    /\ nImports < MaxImports
    /\ \E sheet_name \in SheetNames, delimiter \in {<<COMMA>>, <<>>} :
            Called("tool_export_worksheet_to_csv",
                   <<[sheet_name |-> sheet_name, delimiter |-> delimiter,
                      include_header_row |-> TRUE]>>,
                   FALSE,
                   tool_export_worksheet_to_csv(fs, sheet_name, delimiter, TRUE))
    /\ UNCHANGED nImports

ToolBulkImport ==
    /\ Idle
    /\ nImports < MaxImports
    /\ \E csv_data_list \in SeqsUpTo(EncodedItems, MaxItems), create_if_missing \in BOOLEAN :
            Called("bulk_import_csv", csv_data_list, create_if_missing,
                   bulk_import_csv(fs, csv_data_list, create_if_missing))
    /\ nImports' = nImports + 1

ToolBulkExport ==
    /\ Idle
    /\ nImports < MaxImports
    /\ \E worksheet_list \in SeqsUpTo(EncodedExportItems, MaxItems) :
            Called("tool_bulk_export_worksheets_to_csv", worksheet_list, FALSE,
                   tool_bulk_export_worksheets_to_csv(fs, worksheet_list))
    /\ UNCHANGED nImports

\* requests to the endpoints of web.py
ApiImportCsv ==
    /\ Idle
    /\ nImports < MaxImports
    /\ \E csv_content_base64 \in {EncodeText(<<"a">>), <<"Y", "Q", "=">>} :
            Called("api_import_csv",
                   <<[csv_content_base64 |-> csv_content_base64, sheet_name |-> Data,
                      delimiter |-> <<COMMA>>, merge_mode |-> "replace"]>>,
                   TRUE,
                   api_import_csv(fs, csv_content_base64, Data, <<COMMA>>, "replace"))
    /\ nImports' = nImports + 1

ApiExportCsv ==
    /\ Idle
    /\ nImports < MaxImports
    /\ \E sheet_name \in SheetNames :
            Called("api_export_csv",
                   <<[sheet_name |-> sheet_name, delimiter |-> <<COMMA>>,
                      include_header_row |-> TRUE]>>,
                   FALSE,
                   api_export_csv(fs, sheet_name, <<COMMA>>, TRUE))
    /\ UNCHANGED nImports

ApiBulkImportCsv ==
    /\ Idle
    /\ nImports < MaxImports
    /\ \E csv_data_list \in SeqsUpTo(EncodedItems, 1), create_if_missing \in BOOLEAN :
            Called("api_bulk_import_csv", csv_data_list, create_if_missing,
                   api_bulk_import_csv(fs, csv_data_list, create_if_missing))
    /\ nImports' = nImports + 1

ApiBulkExportCsv ==
    /\ Idle
    /\ nImports < MaxImports
    /\ \E worksheet_list \in SeqsUpTo(EncodedExportItems, 1) :
            Called("api_bulk_export_csv", worksheet_list, FALSE,
                   api_bulk_export_csv(fs, worksheet_list))
    /\ UNCHANGED nImports

\* the caller has taken the result of the last call; the next call sees
\* only the file system
TakeResult ==
    /\ ~Idle
    /\ prev' = fs
    /\ call' = NoCall
    /\ ret' = NoRet
    /\ UNCHANGED <<fs, nImports>>

Next ==
    \/ ImportCsv
    \/ ImportCsvCase
    \/ ImportExported
    \/ ExportCsv
    \/ ImportCsvBase64
    \/ ExportCsvBase64
    \/ BulkImport
    \/ BulkImportBase64
    \/ BulkExport
    \/ BulkExportBase64
    \/ Codec
    \/ ToolImportCsv
    \/ ToolExportCsv
    \/ ToolBulkImport
    \/ ToolBulkExport
    \/ ApiImportCsv
    \/ ApiExportCsv
    \/ ApiBulkImportCsv
    \/ ApiBulkExportCsv
    \/ TakeResult

Spec == Init /\ [][Next]_vars

\* ------------------------------------------------- reading the state
BulkImportOps == {"bulk_import_csv_to_excel", "bulk_import_csv_file_base64"}
BulkExportOps == {"bulk_export_worksheets_to_csv", "bulk_export_worksheets_to_csv_base64"}
ExportOps == {"export_worksheet_to_csv", "export_worksheet_to_csv_base64"} \cup BulkExportOps

Titles(disk) == {disk.sheets[i].title : i \in 1..Len(disk.sheets)}

CellsOf(disk, name) == disk.sheets[SheetIndex(disk, name)].cells

IsPrefix(a, b) == Len(a) <= Len(b) /\ SubSeq(b, 1, Len(a)) = a

\* the CSV text of work item i of the last bulk import
ItemText(i) ==
    IF call.op = "bulk_import_csv_file_base64"
    THEN DecodePayload(call.items[i].csv_content_base64).text
    ELSE call.items[i].csv_content

AllDecode ==
    \A i \in 1..Len(call.items) : DecodePayload(call.items[i].csv_content_base64).ok

\* entry describes the import of work item i
DescribesImport(i, entry) ==
    LET item == call.items[i]
    IN  /\ entry.success =>
              /\ DelimiterOk(item.delimiter)
              /\ entry.rows_imported = Len(ParseCsv(ItemText(i), item.delimiter).rows)
              /\ item.sheet_name # NoName => IsPrefix(item.sheet_name, entry.sheet_name)
        /\ ~entry.success =>
              /\ entry.sheet_name = item.sheet_name
              /\ \/ ~DelimiterOk(item.delimiter)
                 \/ ~prev.disk.exists
                 \/ /\ call.op = "bulk_import_csv_file_base64"
                    /\ ~DecodePayload(item.csv_content_base64).ok

\* entry describes the export of work item i
DescribesExport(i, entry) ==
    LET item == call.items[i]
    IN  /\ entry.success =>
              /\ entry.sheet_name \in Titles(prev.disk)
              /\ item.sheet_name # NoName => entry.sheet_name = item.sheet_name
              /\ item.sheet_name = NoName =>
                     entry.sheet_name = prev.disk.sheets[prev.disk.active].title
        /\ ~entry.success =>
              /\ entry.sheet_name = item.sheet_name
              /\ item.sheet_name \notin Titles(prev.disk) \/ ~DelimiterOk(item.delimiter)

Aligned ==
    /\ Len(ret.results) = Len(call.items)
    /\ \A i \in 1..Len(call.items) :
          IF call.op \in BulkImportOps
          THEN DescribesImport(i, ret.results[i])
          ELSE DescribesExport(i, ret.results[i])

\* ------------------------------------------------------------- claims
\* C1 as stated: every bulk import and bulk export that returns a list
\* returns one entry per work item, entry i describing item i, the base64
\* bulk import included.
C1_Original ==
    (call.op \in BulkImportOps \cup BulkExportOps /\ ~ret.raised) => Aligned

\* C1, amended: the list is aligned with the items for the bulk import, for
\* both bulk exports, and for the base64 bulk import when every payload
\* decodes; when a payload does not decode, the base64 bulk import returns a
\* single failed entry that names the sheet of the first such item.
C1_Aligned ==
    /\ (call.op \in {"bulk_import_csv_to_excel"} \cup BulkExportOps /\ ~ret.raised)
          => Aligned
    /\ (call.op = "bulk_import_csv_file_base64" /\ ~ret.raised /\ AllDecode)
          => Aligned
    /\ (call.op = "bulk_import_csv_file_base64" /\ ~AllDecode) =>
          /\ ~ret.raised
          /\ Len(ret.results) = 1
          /\ ~ret.results[1].success
          /\ \E k \in 1..Len(call.items) :
                /\ ~DecodePayload(call.items[k].csv_content_base64).ok
                /\ \A j \in 1..(k - 1) : DecodePayload(call.items[j].csv_content_base64).ok
                /\ ret.results[1].sheet_name = call.items[k].sheet_name

\* a bulk import of two items whose first failed and whose second succeeded
C1_Witness ==
    /\ call.op = "bulk_import_csv_to_excel"
    /\ Len(call.items) = 2
    /\ ~ret.raised
    /\ Len(ret.results) = 2
    /\ ~ret.results[1].success
    /\ ret.results[2].success

\* C2: when exactly one item of a bulk import fails to parse and the
\* document exists or may be created, the call returns, with one entry per
\* item, the entry of that item failed, every other entry successful and its
\* rows in a sheet of the saved document.
BadItems == {i \in 1..Len(call.items) : ~DelimiterOk(call.items[i].delimiter)}

\* the rows hold, from row start on, the cells of sheet name
RowsAt(disk, name, rows, start) ==
    /\ name \in Titles(disk)
    /\ \A i \in 1..Len(rows) : \A j \in 1..Len(rows[i]) :
          /\ <<start + i - 1, j>> \in DOMAIN CellsOf(disk, name)
          /\ CellsOf(disk, name)[<<start + i - 1, j>>] = rows[i][j]

C2_Isolation ==
    (/\ call.op = "bulk_import_csv_to_excel"
     /\ Cardinality(BadItems) = 1
     /\ prev.disk.exists \/ call.create_if_missing)
    =>
    /\ ~ret.raised
    /\ Len(ret.results) = Len(call.items)
    /\ \A i \in 1..Len(call.items) :
          IF i \in BadItems THEN ~ret.results[i].success
          ELSE /\ ret.results[i].success
               /\ \E name \in Titles(fs.disk) :
                     \E start \in 1..(max_row(CellsOf(fs.disk, name))) :
                        RowsAt(fs.disk, name,
                               ParseCsv(call.items[i].csv_content, call.items[i].delimiter).rows,
                               start)

\* the first of two items fails on a document that does not exist yet, and
\* the second creates the document
C2_Witness ==
    /\ call.op = "bulk_import_csv_to_excel"
    /\ Len(call.items) = 2
    /\ BadItems = {1}
    /\ ~prev.disk.exists
    /\ call.create_if_missing
    /\ ~ret.raised
    /\ ret.results[2].success
    /\ fs.disk.exists

\* The single import that has just returned: its arguments, its result, the
\* rows it parsed, and the cells of its target sheet before and after.
Imported == call.op = "import_csv_to_excel" /\ ~ret.raised

ImportedRows == ParseCsv(call.items[1].csv_content, call.items[1].delimiter).rows

TargetBefore ==
    IF prev.disk.exists /\ ret.results[1].sheet_name \in Titles(prev.disk)
    THEN CellsOf(prev.disk, ret.results[1].sheet_name) ELSE NoCells

TargetAfter == CellsOf(fs.disk, ret.results[1].sheet_name)

\* the last row that holds a cell, 0 for a sheet without cells
LastOccupiedRow(cells) ==
    IF DOMAIN cells = {} THEN 0 ELSE SetMax({p[1] : p \in DOMAIN cells})

\* C3: after a successful import in mode replace the target sheet holds
\* exactly the imported rows, from row 1 on, and none of its former cells,
\* whether the sheet was named or is the active sheet.
C3_ReplaceExact ==
    (Imported /\ call.items[1].merge_mode = "replace")
        => TargetAfter = WriteCells(NoCells, ImportedRows, 1)

\* C4: a successful import in mode append leaves the former cells of the
\* target sheet in place and writes the imported rows from the row after
\* the last occupied row on, from row 1 on for a sheet that is new or empty.
C4_AppendOffset ==
    (Imported /\ call.items[1].merge_mode = "append")
        => TargetAfter = WriteCells(TargetBefore, ImportedRows,
                                    LastOccupiedRow(TargetBefore) + 1)

C6_NewSheetFrame ==
    (Imported /\ call.items[1].merge_mode = "new_sheet")
        => /\ Len(fs.disk.sheets) >= Len(prev.disk.sheets)
           /\ \A i \in 1..Len(prev.disk.sheets) : fs.disk.sheets[i] = prev.disk.sheets[i]

\* The sheet a single export that has just returned was asked for.
ExportedOp == call.op \in {"export_worksheet_to_csv", "export_worksheet_to_csv_base64"}

\* every cell of the rows 1 .. max_row and columns 1 .. max_column holds a
\* text that is not empty
AllText(cells) ==
    \A r \in 1..max_row(cells), c \in 1..max_column(cells) :
        <<r, c>> \in DOMAIN cells /\ cells[<<r, c>>] # <<>>

\* the rows of a sheet that hold a cell that is not empty, in sheet order
KeptRowNumbers(cells) ==
    {r \in 1..max_row(cells) : \E c \in 1..max_column(cells) : CellValue(cells, r, c) # NONE}

NthOf(S, n) == CHOOSE x \in S : Cardinality({y \in S : y < x}) = n - 1

KeptRows(cells) ==
    [k \in 1..Cardinality(KeptRowNumbers(cells)) |->
        [c \in 1..max_column(cells) |->
            LET v == CellValue(cells, NthOf(KeptRowNumbers(cells), k), c)
            IN  IF v = NONE THEN <<>> ELSE v]]

\* C7: when a sheet holds only text cells, importing the CSV text of its
\* export in mode replace into the sheet of the same name, with the
\* delimiter of the export, leaves the sheet with the same cells.
C7_RoundTrip ==
    (/\ Imported
     /\ call.items[1].merge_mode = "replace"
     /\ call.items[1].sheet_name # NoName
     /\ prev.disk.exists
     /\ call.items[1].sheet_name \in Titles(prev.disk)
     /\ AllText(CellsOf(prev.disk, call.items[1].sheet_name))
     /\ DelimiterOk(call.items[1].delimiter)
     /\ call.items[1].csv_content =
            export_worksheet_to_csv(prev, call.items[1].sheet_name,
                                    call.items[1].delimiter, TRUE).results[1].csv_content)
    =>
    /\ TargetAfter = CellsOf(prev.disk, call.items[1].sheet_name)
    /\ iter_rows(TargetAfter) = iter_rows(CellsOf(prev.disk, call.items[1].sheet_name))
    /\ ret.results[1].sheet_name = call.items[1].sheet_name

\* the exported sheet held a cell with the delimiter in it, so that the
\* export had to quote the field, and the import has read the text back
C7_Witness ==
    /\ Imported
    /\ call.items[1].merge_mode = "replace"
    /\ call.items[1].sheet_name = Data
    /\ prev.disk.exists
    /\ Data \in Titles(prev.disk)
    /\ AllText(CellsOf(prev.disk, Data))
    /\ call.items[1].delimiter = <<COMMA>>
    /\ call.items[1].csv_content =
           export_worksheet_to_csv(prev, Data, <<COMMA>>, TRUE).results[1].csv_content
    /\ \E p \in DOMAIN CellsOf(prev.disk, Data) :
           Contains(CellsOf(prev.disk, Data)[p], {COMMA})
    /\ max_row(TargetAfter) = 2

\* C8: a successful export returns the rows of the sheet that hold a cell
\* that is not empty, in sheet order, an empty cell of such a row as an empty
\* field; rows_exported is the number of these rows.
C8_EmptyRows ==
    (call.op = "export_worksheet_to_csv" /\ ~ret.raised)
    =>
    LET cells == CellsOf(prev.disk, ret.results[1].sheet_name)
        parsed == ParseCsv(ret.results[1].csv_content, call.items[1].delimiter)
    IN  /\ ret.results[1].rows_exported = Cardinality(KeptRowNumbers(cells))
        /\ IF KeptRowNumbers(cells) = {}
           THEN ret.results[1].csv_content = <<>>
           ELSE parsed.ok /\ parsed.rows = KeptRows(cells)

\* the exported sheet has a row without cells, which is dropped, and a row
\* with an empty cell, which is kept
C8_Witness ==
    /\ call.op = "export_worksheet_to_csv"
    /\ ~ret.raised
    /\ LET cells == CellsOf(prev.disk, ret.results[1].sheet_name)
       IN  /\ 1 \notin KeptRowNumbers(cells)
           /\ ret.results[1].rows_exported = 2
           /\ \E k \in 1..2 : \E c \in 1..max_column(cells) :
                 ParseCsv(ret.results[1].csv_content, call.items[1].delimiter).rows[k][c] = <<>>

\* C9: no export, single or bulk, plain or base64, returning or raising,
\* changes the file or its directory; an export of a path that does not
\* exist raises FileOperationError and the path still does not exist.
C9_ExportReadOnly ==
    call.op \in ExportOps =>
        /\ fs = prev
        /\ ~prev.disk.exists =>
              /\ ret.raised
              /\ ret.error = "FileOperationError"
              /\ ~fs.disk.exists

\* an export of a path whose directory does not exist either
C9_Witness ==
    /\ call.op \in ExportOps
    /\ ~prev.disk.exists
    /\ ~prev.dir
    /\ ret.raised

\* C10 as stated: an export with a name the document does not have fails
\* with SheetNotFoundError.
C10_Original ==
    (/\ ExportedOp
     /\ prev.disk.exists
     /\ call.items[1].sheet_name # NoName
     /\ call.items[1].sheet_name \notin Titles(prev.disk))
    => ret.raised /\ ret.error = "SheetNotFoundError"

\* C10, amended: an export never changes the sheet names; without a name it
\* exports the active sheet, with a name the document has it exports that
\* sheet, and with a name the document does not have it raises
\* FileOperationError.
C10_Lookup ==
    (ExportedOp /\ prev.disk.exists)
    =>
    LET name == call.items[1].sheet_name
        asked == IF name = NoName THEN prev.disk.sheets[prev.disk.active].title ELSE name
    IN  /\ sheetnames(fs.disk) = sheetnames(prev.disk)
        /\ asked \in Titles(prev.disk) =>
              /\ ret.raised => ~DelimiterOk(call.items[1].delimiter)
              /\ ~ret.raised =>
                    /\ ret.results[1].sheet_name = asked
                    /\ ret.results[1].rows_exported =
                           Cardinality(KeptRowNumbers(CellsOf(prev.disk, asked)))
        /\ asked \notin Titles(prev.disk) =>
              /\ ret.raised
              /\ ret.error = "FileOperationError"

\* an export with a name the document does not have
C10_Witness ==
    /\ ExportedOp
    /\ prev.disk.exists
    /\ call.items[1].sheet_name = Data
    /\ Data \notin Titles(prev.disk)
    /\ ret.raised
    /\ sheetnames(fs.disk) = <<<<"CSV_Import">>>>

\* A single import, plain or base64, and whether its arguments are ones the
\* import accepts: a delimiter of one character and a payload that decodes.
SingleImport == call.op \in {"import_csv_to_excel", "import_csv_file_base64"}

ImportArgsOk ==
    /\ DelimiterOk(call.items[1].delimiter)
    /\ call.op = "import_csv_file_base64" =>
           DecodePayload(call.items[1].csv_content_base64).ok

\* C11: an import on a path that does not exist raises FileOperationError
\* and leaves the path absent when create_if_missing is false; when it is
\* true and the arguments are accepted, the import returns success and the
\* path holds a document with the sheet the result names.
C11_CreateIfMissing ==
    (SingleImport /\ ~prev.disk.exists)
    =>
    IF ~call.create_if_missing
    THEN /\ ret.raised
         /\ ret.error = "FileOperationError"
         /\ ~fs.disk.exists
    ELSE ImportArgsOk =>
            /\ ~ret.raised
            /\ ret.results[1].success
            /\ fs.disk.exists
            /\ ret.results[1].sheet_name \in Titles(fs.disk)

\* an import with create_if_missing false on a path that does not exist
C11_Witness ==
    /\ call.op = "import_csv_to_excel"
    /\ ~prev.disk.exists
    /\ ~call.create_if_missing
    /\ DelimiterOk(call.items[1].delimiter)
    /\ ret.raised
    /\ ~fs.disk.exists

\* the file system after the imports of the items whose entry is successful,
\* in order, the failed ones left out
RECURSIVE ApplySucceeded(_, _, _)
ApplySucceeded(f, items, results) ==
    IF items = <<>> THEN f
    ELSE IF Head(results).success
    THEN ApplySucceeded(import_csv_to_excel(f, Head(items).csv_content,
                                            Head(items).sheet_name, Head(items).delimiter,
                                            TRUE, Head(items).merge_mode).fs,
                        Tail(items), Tail(results))
    ELSE ApplySucceeded(f, Tail(items), Tail(results))

\* C12: a single import that raises leaves the file as it was before the
\* call, and the file after a bulk import is the file its successful items
\* alone produce: a failed item changes nothing.
C12_SavedOnSuccessOnly ==
    /\ (SingleImport /\ ret.raised) => fs.disk = prev.disk
    /\ call.op = "bulk_import_csv_to_excel" =>
          /\ Len(ret.results) = Len(call.items)
          /\ fs.disk = ApplySucceeded(prev, call.items, ret.results).disk
          /\ (\A i \in 1..Len(ret.results) : ~ret.results[i].success) => fs.disk = prev.disk

\* an import in mode replace into a sheet that holds cells has failed to
\* parse, after the sheet was cleared in memory
C12_Witness ==
    /\ call.op = "import_csv_to_excel"
    /\ ret.raised
    /\ prev.disk.exists
    /\ call.items[1].merge_mode = "replace"
    /\ call.items[1].sheet_name \in Titles(prev.disk)
    /\ DOMAIN CellsOf(prev.disk, call.items[1].sheet_name) # {}
    /\ ~DelimiterOk(call.items[1].delimiter)
    /\ fs.disk = prev.disk

\* C13: when a payload of a base64 bulk import does not decode, at whatever
\* position, the call returns a single failed entry with the sheet name of
\* the first such item and changes nothing: no item is imported, the ones
\* before the bad one included.
C13_DecodeFailsBatch ==
    (call.op = "bulk_import_csv_file_base64" /\ ~AllDecode)
    =>
    /\ ~ret.raised
    /\ fs = prev
    /\ Len(ret.results) = 1
    /\ ret.results[1].success = FALSE
    /\ ret.results[1].message = "Failed to decode base64 CSV"
    /\ LET bad == {i \in 1..Len(call.items) :
                      ~DecodePayload(call.items[i].csv_content_base64).ok}
       IN  ret.results[1].sheet_name = call.items[NthOf(bad, 1)].sheet_name

\* the second payload of two does not decode, the first does and names a
\* sheet the call could have created
C13_Witness ==
    /\ call.op = "bulk_import_csv_file_base64"
    /\ Len(call.items) = 2
    /\ DecodePayload(call.items[1].csv_content_base64).ok
    /\ ~DecodePayload(call.items[2].csv_content_base64).ok
    /\ call.items[1].sheet_name = Data
    /\ call.items[2].sheet_name = NoName
    /\ call.create_if_missing
    /\ ~prev.disk.exists
    /\ ~fs.disk.exists
    /\ Len(ret.results) = 1

\* The form of the dict a bulk tool returns: its success flag, its counts
\* and, per entry, everything but the wording of a failed entry's message.
EntryForm(e) ==
    IF e.success THEN e ELSE [success |-> FALSE, sheet_name |-> e.sheet_name]

OuterForm(t) ==
    IF t.success
    THEN [success |-> TRUE, message |-> t.message,
          results |-> [i \in 1..Len(t.results) |-> EntryForm(t.results[i])]]
    ELSE [success |-> FALSE, message |-> t.message, results |-> <<>>]

\* what bulk_import_csv returns, on the file system f, for the batches whose
\* payloads all decode and of which an item fails in the import
ProcessedWithFailures(f) ==
    LET decodable == {d \in EncodedItems : DecodePayload(d.csv_content_base64).ok}
        outcomes == {bulk_import_csv(f, l, c).results[1] :
                        l \in SeqsUpTo(decodable, MaxItems) \ {<<>>}, c \in BOOLEAN}
    IN  {t \in outcomes : \E i \in 1..Len(t.results) : ~t.results[i].success}

\* C14: what a bulk tool returns for a failed precondition of the batch (a
\* payload that does not decode, an export of a path that does not exist)
\* differs in form from what it returns for a batch whose items were
\* processed and of which some failed.
C14_BatchFailureDistinct ==
    /\ (call.op = "bulk_import_csv" /\ ~AllDecode) =>
          \A t \in ProcessedWithFailures(prev) :
              OuterForm(t) # OuterForm(ret.results[1])
    /\ (call.op = "tool_bulk_export_worksheets_to_csv" /\ ~prev.disk.exists) =>
          ~ret.results[1].success

\* C15: a bulk export of a path that does not exist raises before any item
\* is processed, so there are no entries, and the bulk export tool returns
\* success False without a result list.
C15_BulkExportAbsent ==
    /\ (call.op \in BulkExportOps /\ ~prev.disk.exists) =>
          /\ ret.raised
          /\ ret.error = "FileOperationError"
          /\ ret.results = <<>>
          /\ fs = prev
    /\ (call.op = "tool_bulk_export_worksheets_to_csv" /\ ~prev.disk.exists) =>
          /\ ~ret.raised
          /\ ret.results = <<[success |-> FALSE, message |-> "Bulk CSV export failed"]>>
          /\ fs = prev

\* the bulk export tool was given two items for a path that does not exist
C15_Witness ==
    /\ call.op = "tool_bulk_export_worksheets_to_csv"
    /\ Len(call.items) = 2
    /\ ~prev.disk.exists
    /\ ~ret.results[1].success

\* the number of successful entries of a result list
RECURSIVE CountSuccess(_)
CountSuccess(results) ==
    IF results = <<>> THEN 0
    ELSE (IF Head(results).success THEN 1 ELSE 0) + CountSuccess(Tail(results))

\* the result list the operation under a bulk tool produces for the last call
ListProduced ==
    IF call.op = "bulk_import_csv"
    THEN bulk_import_csv_file_base64(prev, call.items, call.create_if_missing)
    ELSE bulk_export_worksheets_to_csv_base64(prev, call.items)

\* C16: whenever the operation under a bulk tool produces its result list,
\* the tool returns success True with that list and a summary that gives
\* the number of entries as the total, the number of successful entries,
\* and their difference as the number of failed ones, also when every
\* entry failed.
C16_Summary ==
    call.op \in {"bulk_import_csv", "tool_bulk_export_worksheets_to_csv"}
    =>
    LET produced == ListProduced
        t == ret.results[1]
        total == Len(produced.results)
        successful == CountSuccess(produced.results)
        what == IF call.op = "bulk_import_csv" THEN "imports" ELSE "exports"
    IN  ~produced.raised =>
        /\ t.success
        /\ t.results = produced.results
        /\ t.message = "Processed " \o ToString(total) \o " CSV " \o what \o " ("
                          \o ToString(successful) \o " successful, "
                          \o ToString(total - successful) \o " failed)"

\* both items of a bulk import failed and the tool still returns success
C16_Witness ==
    /\ call.op = "bulk_import_csv"
    /\ Len(call.items) = 2
    /\ ret.results[1].success
    /\ Len(ret.results[1].results) = 2
    /\ \A i \in 1..2 : ~ret.results[1].results[i].success
    /\ ret.results[1].message = "Processed 2 CSV imports (0 successful, 2 failed)"

\* The items of a bulk import imported one after the other, item i with
\* create_if_missing = flags[i]: the file system at the end and, per item,
\* whether its import returned.
RECURSIVE Replay(_, _, _, _)
Replay(f, items, flags, done) ==
    IF items = <<>> THEN [fs |-> f, ok |-> done]
    ELSE LET o == import_csv_to_excel(f, Head(items).csv_content, Head(items).sheet_name,
                                      Head(items).delimiter, Head(flags),
                                      Head(items).merge_mode)
         IN  Replay(o.fs, Tail(items), Tail(flags), Append(done, ~o.raised))

Agrees(r) ==
    /\ r.fs = fs
    /\ Len(ret.results) = Len(r.ok)
    /\ \A i \in 1..Len(r.ok) : ret.results[i].success = r.ok[i]

\* C17 as stated: every item after the first is imported with
\* create_if_missing false, whether the first item succeeded or failed.
C17_Original ==
    call.op = "bulk_import_csv_to_excel" =>
        Agrees(Replay(prev, call.items,
                      [i \in 1..Len(call.items) |->
                          IF i = 1 THEN call.create_if_missing ELSE FALSE], <<>>))

\* C17, amended: create_if_missing is turned off after the first item that
\* is imported successfully; an item that follows only failed items is
\* imported with the create_if_missing of the call.
C17_OffAfterSuccess ==
    call.op = "bulk_import_csv_to_excel" =>
        Agrees(Replay(prev, call.items,
                      [i \in 1..Len(call.items) |->
                          IF \E j \in 1..(i - 1) : ret.results[j].success
                          THEN FALSE ELSE call.create_if_missing], <<>>))

\* the first item failed on a path that does not exist and the second item,
\* in mode new_sheet, created the document
C17_Witness ==
    /\ call.op = "bulk_import_csv_to_excel"
    /\ call.create_if_missing
    /\ ~prev.disk.exists
    /\ Len(call.items) = 2
    /\ ~ret.results[1].success
    /\ ret.results[2].success
    /\ call.items[2].merge_mode = "new_sheet"
    /\ sheetnames(fs.disk) = <<Data>>

\* The four tools, and what the operation under the last tool call does on
\* the file system the tool found.
ToolOps == {"import_csv", "tool_export_worksheet_to_csv", "bulk_import_csv",
            "tool_bulk_export_worksheets_to_csv"}

Underlying ==
    CASE call.op = "import_csv" ->
            import_csv_file_base64(prev, call.items[1].csv_content_base64,
                                   call.items[1].sheet_name, call.items[1].delimiter,
                                   call.create_if_missing, call.items[1].merge_mode)
      [] call.op = "tool_export_worksheet_to_csv" ->
            export_worksheet_to_csv_base64(prev, call.items[1].sheet_name,
                                           call.items[1].delimiter,
                                           call.items[1].include_header_row)
      [] call.op = "bulk_import_csv" ->
            bulk_import_csv_file_base64(prev, call.items, call.create_if_missing)
      [] OTHER ->
            bulk_export_worksheets_to_csv_base64(prev, call.items)

\* C18: a tool never raises; it returns one dict with a boolean success and
\* a message, and success is False exactly when the operation under it
\* raised.
C18_ToolsNeverRaise ==
    call.op \in ToolOps =>
        LET under == Underlying
        IN  /\ ~ret.raised
            /\ Len(ret.results) = 1
            /\ {"success", "message"} \subseteq DOMAIN ret.results[1]
            /\ ret.results[1].success \in BOOLEAN
            /\ ret.results[1].success = ~under.raised
            /\ fs = under.fs

\* the import under the import tool raised, the export under the export
\* tool likewise
C18_Witness ==
    /\ call.op \in {"import_csv", "tool_export_worksheet_to_csv"}
    /\ prev.disk.exists
    /\ Underlying.raised
    /\ ~ret.raised
    /\ ~ret.results[1].success

\* C19: decoding what the encoder gives for a byte sequence gives the
\* byte sequence back, and so the text decoded from the csv_content_base64
\* of a base64 export is the csv_content of the plain export of that sheet.
C19_CodecRoundTrip ==
    /\ call.op = "codec" =>
          /\ ret.results[1].decoded = [ok |-> TRUE, bytes |-> call.items[1]]
          /\ \A i \in 1..Len(ret.results[1].encoded) :
                ret.results[1].encoded[i] \in B64Alphabet \cup {PAD}
    /\ (call.op \in {"export_worksheet_to_csv_base64", "tool_export_worksheet_to_csv"}
            /\ ~ret.raised /\ ret.results[1].success) =>
          LET plain == export_worksheet_to_csv(prev, call.items[1].sheet_name,
                                               call.items[1].delimiter,
                                               call.items[1].include_header_row)
          IN  /\ ~plain.raised
              /\ DecodePayload(ret.results[1].csv_content_base64) =
                     [ok |-> TRUE, text |-> plain.results[1].csv_content]

\* three bytes whose encoding uses the last two characters of the alphabet
C19_Witness ==
    /\ call.op = "codec"
    /\ call.items[1] = <<251, 255, 255>>
    /\ ret.results[1].encoded = <<"+", "/", "/", "/">>
    /\ ret.results[1].decoded.bytes = <<251, 255, 255>>

\* a payload that is not base64 text: a character outside the alphabet and
\* the padding, or a length that is not a multiple of four
Malformed(payload) ==
    \/ \E i \in 1..Len(payload) : payload[i] \notin B64Alphabet \cup {PAD}
    \/ Len(payload) % 4 # 0

\* C20: a base64 import given a malformed payload fails and imports
\* nothing.
C20_MalformedPayloadFails ==
    /\ (call.op = "import_csv_file_base64"
            /\ Malformed(call.items[1].csv_content_base64)) =>
          ret.raised /\ fs.disk = prev.disk
    /\ (call.op = "import_csv" /\ Malformed(call.items[1].csv_content_base64)) =>
          ~ret.results[1].success /\ fs.disk = prev.disk

\* ------------------------------------------------- unrecognised merge modes
KnownModes == {"replace", "append", "new_sheet"}

UnknownModeImport ==
    call.op = "import_csv_to_excel" /\ call.items[1].merge_mode \notin KnownModes

\* C21 as stated: an import with a merge mode other than replace, append and
\* new_sheet keeps the rows of the sheet and writes the imported rows after
\* the last occupied row.
C21_Original ==
    (UnknownModeImport /\ ~ret.raised /\ ret.results[1].sheet_name \in Titles(prev.disk))
        => TargetAfter = WriteCells(TargetBefore, ImportedRows,
                                    LastOccupiedRow(TargetBefore) + 1)

\* C21: an import with a merge mode other than replace, append and new_sheet
\* is not rejected: it returns whenever the delimiter is accepted and the
\* document exists or may be created; on a sheet the document has it adds no
\* sheet, clears nothing and writes the imported rows from row 1 on, over
\* the cells that were there.
C21_UnknownModeOverwrites ==
    UnknownModeImport =>
       /\ (DelimiterOk(call.items[1].delimiter)
           /\ (prev.disk.exists \/ call.create_if_missing)) => ~ret.raised
       /\ (~ret.raised /\ ret.results[1].sheet_name \in Titles(prev.disk))
          => /\ sheetnames(fs.disk) = sheetnames(prev.disk)
             /\ TargetAfter = WriteCells(TargetBefore, ImportedRows, 1)

\* an import in an unrecognised mode into a sheet that holds rows, after
\* which the sheet has no more rows than before
C21_Witness ==
    /\ UnknownModeImport
    /\ ~ret.raised
    /\ ret.results[1].sheet_name \in Titles(prev.disk)
    /\ LastOccupiedRow(TargetBefore) >= 1
    /\ Len(ImportedRows) >= 1
    /\ TargetAfter # TargetBefore
    /\ max_row(TargetAfter) = max_row(TargetBefore)

\* ------------------------------------------------- the header flag
\* the outcome the last call has left in the state
SameOutcome(o) ==
    /\ o.fs = fs
    /\ o.raised = ret.raised
    /\ o.error = ret.error
    /\ o.results = ret.results

\* the items with include_header_row set as flags says
WithFlags(items, flags) ==
    [i \in 1..Len(items) |-> [items[i] EXCEPT !.include_header_row = flags[i]]]

\* C22: include_header_row changes nothing: a single export returns the
\* same with the flag negated, and a bulk export returns the same whatever
\* the flags of its items are.
C22_HeaderFlagInert ==
    /\ call.op = "export_worksheet_to_csv" =>
          \E o \in {export_worksheet_to_csv(prev, call.items[1].sheet_name,
                                            call.items[1].delimiter,
                                            ~call.items[1].include_header_row)} :
             SameOutcome(o)
    /\ call.op = "bulk_export_worksheets_to_csv" =>
          \A flags \in [1..Len(call.items) -> BOOLEAN] :
             \E o \in {bulk_export_worksheets_to_csv(prev, WithFlags(call.items, flags))} :
                SameOutcome(o)

\* an export with the flag off that returns every row of a sheet with rows,
\* single and as an item of a bulk export
C22_Witness ==
    \/ /\ call.op = "export_worksheet_to_csv"
       /\ ~call.items[1].include_header_row
       /\ ~ret.raised
       /\ ret.results[1].rows_exported >= 2
    \/ /\ call.op = "bulk_export_worksheets_to_csv"
       /\ ~ret.raised
       /\ \E i \in 1..Len(call.items) :
             /\ ~call.items[i].include_header_row
             /\ ret.results[i].success
             /\ ret.results[i].rows_exported >= 2

\* ------------------------------------------------- exports without rows
\* the single export that was called has a sheet to export: the sheet it
\* names, or the active sheet when it names none
ExportHasSheet ==
    /\ ExportedOp
    /\ prev.disk.exists
    /\ IF call.items[1].sheet_name = NoName
       THEN Len(prev.disk.sheets) > 0
       ELSE call.items[1].sheet_name \in Titles(prev.disk)

ExportSheetCells ==
    IF call.items[1].sheet_name = NoName
    THEN prev.disk.sheets[prev.disk.active].cells
    ELSE CellsOf(prev.disk, call.items[1].sheet_name)

\* no cell of the sheet holds a text that is not empty
NoSurvivingRow(cells) == \A p \in DOMAIN cells : cells[p] = <<>>

\* C23: an export, plain or base64, of a sheet of which no row holds a cell
\* that is not empty returns success with empty CSV text and rows_exported 0,
\* whatever the delimiter is; the base64 export carries the empty payload.
C23_EmptyExportSucceeds ==
    (ExportHasSheet /\ NoSurvivingRow(ExportSheetCells))
    =>
    /\ ~ret.raised
    /\ ret.results[1].success
    /\ ret.results[1].csv_content = <<>>
    /\ ret.results[1].rows_exported = 0
    /\ call.op = "export_worksheet_to_csv_base64" =>
          ret.results[1].csv_content_base64 = <<>>

\* a base64 export of a sheet into which empty CSV text was imported
C23_Witness ==
    /\ call.op = "export_worksheet_to_csv_base64"
    /\ ExportHasSheet
    /\ NoSurvivingRow(ExportSheetCells)
    /\ ~ret.raised
    /\ ret.results[1].rows_exported = 0

WrittenTo(name) ==
    /\ name \in Titles(fs.disk)
    /\ \E start \in 1..(max_row(CellsOf(fs.disk, name)) + 1) :
          RowsAt(fs.disk, name, ImportedRows, start)

\* every sheet the file had, but the sheet at position a, is as it was
OthersUnchanged(a) ==
    \A i \in 1..Len(prev.disk.sheets) :
        i # a => /\ i <= Len(fs.disk.sheets)
                 /\ fs.disk.sheets[i] = prev.disk.sheets[i]

\* C25: a successful import without a sheet name writes its rows to the
\* active sheet when the document has a sheet, adding no sheet and leaving
\* the other sheets alone; otherwise the document is new and gets the one
\* sheet "CSV_Import" with the rows.  The result names the sheet written.
C25_DefaultSheet ==
    (Imported /\ call.items[1].sheet_name = NoName)
    =>
    IF prev.disk.exists /\ Len(prev.disk.sheets) > 0
    THEN /\ sheetnames(fs.disk) = sheetnames(prev.disk)
         /\ ret.results[1].sheet_name = prev.disk.sheets[prev.disk.active].title
         /\ WrittenTo(prev.disk.sheets[prev.disk.active].title)
         /\ OthersUnchanged(prev.disk.active)
    ELSE /\ ~prev.disk.exists
         /\ sheetnames(fs.disk) = <<(<<"CSV_Import">>)>>
         /\ ret.results[1].sheet_name = <<"CSV_Import">>
         /\ WrittenTo(<<"CSV_Import">>)

\* an import without a name into a document with two sheets, the active one
\* of which gets the rows
C25_Witness ==
    /\ Imported
    /\ call.items[1].sheet_name = NoName
    /\ prev.disk.exists
    /\ Len(prev.disk.sheets) >= 2
    /\ Len(ImportedRows) >= 1
    /\ fs.disk.sheets[prev.disk.active] # prev.disk.sheets[prev.disk.active]

\* ------------------------------------------------- imports into a new name
\* the import named a sheet the document did not have
NamedAbsent ==
    /\ Imported
    /\ call.items[1].sheet_name # NoName
    /\ call.items[1].sheet_name \notin Titles(prev.disk)

\* C26: a successful import with a sheet name the document does not have
\* adds, after the sheets there were, one sheet with exactly that name in
\* every merge mode, reports that name, leaves the other sheets unchanged
\* and, in the modes replace and new_sheet, holds the imported rows from
\* row 1 on and nothing else.
C26_CreatesExactName ==
    NamedAbsent
    =>
    /\ Len(fs.disk.sheets) = Len(prev.disk.sheets) + 1
    /\ fs.disk.sheets[Len(fs.disk.sheets)].title = call.items[1].sheet_name
    /\ ret.results[1].sheet_name = call.items[1].sheet_name
    /\ OthersUnchanged(0)
    /\ call.items[1].merge_mode \in {"replace", "new_sheet"} =>
          fs.disk.sheets[Len(fs.disk.sheets)].cells = WriteCells(NoCells, ImportedRows, 1)

\* ------------------------------------------------- the counts of an import
\* C27: a successful import reports the number of the parsed rows and the
\* width of the first parsed row, 0 when there is none, in every merge mode
\* and whatever the widths of the later rows are; an import of the empty
\* text, with a delimiter that is accepted and a document that exists or
\* may be created, succeeds with both counts 0.
C27_ImportCounts ==
    /\ Imported =>
          /\ ret.results[1].success
          /\ ret.results[1].rows_imported = Len(ImportedRows)
          /\ ret.results[1].columns_imported =
                IF ImportedRows = <<>> THEN 0 ELSE Len(ImportedRows[1])
    /\ (/\ call.op = "import_csv_to_excel"
        /\ call.items[1].csv_content = <<>>
        /\ DelimiterOk(call.items[1].delimiter)
        /\ prev.disk.exists \/ call.create_if_missing)
       => /\ ~ret.raised
          /\ ret.results[1].success
          /\ ret.results[1].rows_imported = 0
          /\ ret.results[1].columns_imported = 0

\* an import of two rows, the second narrower than the first, in a mode
\* other than replace
C27_Witness ==
    /\ Imported
    /\ call.items[1].merge_mode # "replace"
    /\ Len(ImportedRows) = 2
    /\ Len(ImportedRows[2]) < Len(ImportedRows[1])
    /\ ret.results[1].columns_imported = 2

\* ------------------------------------------------- bulk import, in sequence
\* The single imports of the items, one after the other, each on the file
\* the one before has left and each with the create_if_missing of the call:
\* the file system at the end and the outcome of every import.
RECURSIVE Compose(_, _, _, _)
Compose(f, items, create_if_missing, outs) ==
    IF items = <<>> THEN [fs |-> f, outs |-> outs]
    ELSE LET o == import_csv_to_excel(f, Head(items).csv_content, Head(items).sheet_name,
                                      Head(items).delimiter, create_if_missing,
                                      Head(items).merge_mode)
         IN  Compose(o.fs, Tail(items), create_if_missing, Append(outs, o))

\* C28: a bulk import leaves the file that the single imports of its items,
\* run in input order each on the file left by the one before, leave, a
\* failed item leaving the file as it was; entry i is successful exactly
\* when the i-th of these imports returns, and then carries its sheet name,
\* counts and message.
C28_SequentialComposition ==
    call.op = "bulk_import_csv_to_excel" =>
        \E c \in {Compose(prev, call.items, call.create_if_missing, <<>>)} :
            /\ ~ret.raised
            /\ fs = c.fs
            /\ Len(ret.results) = Len(call.items)
            /\ \A i \in 1..Len(call.items) :
                  /\ ret.results[i].success = ~c.outs[i].raised
                  /\ c.outs[i].raised =>
                        (IF i = 1 THEN prev ELSE c.outs[i - 1].fs).disk = c.outs[i].fs.disk
                  /\ ~c.outs[i].raised =>
                        /\ ret.results[i].sheet_name = c.outs[i].results[1].sheet_name
                        /\ ret.results[i].rows_imported = c.outs[i].results[1].rows_imported
                        /\ ret.results[i].columns_imported =
                              c.outs[i].results[1].columns_imported
                        /\ ret.results[i].message = c.outs[i].results[1].message

\* two items in mode new_sheet with the name of a sheet the document has get
\* the suffixes 1 and 2
C28_Witness ==
    /\ call.op = "bulk_import_csv_to_excel"
    /\ Len(call.items) = 2
    /\ \A i \in 1..2 : call.items[i].merge_mode = "new_sheet"
    /\ Data \in Titles(prev.disk)
    /\ ~ret.raised
    /\ ret.results[1].success /\ ret.results[1].sheet_name = Append(Data, 1)
    /\ ret.results[2].success /\ ret.results[2].sheet_name = Append(Data, 2)

\* ------------------------------------------------- encoded bulk export
\* C29: a base64 bulk export that returns has one entry per item, in the
\* order of the items; an entry is successful exactly when the single export
\* of its item returns, and then has no csv_content field and a
\* csv_content_base64 field that decodes to the CSV text of that export; a
\* failed entry is the entry of the plain bulk export.
C29_EncodedEntries ==
    (call.op = "bulk_export_worksheets_to_csv_base64" /\ ~ret.raised)
    =>
    \E plain \in {bulk_export_worksheets_to_csv(prev, call.items)} :
        /\ ~plain.raised
        /\ Len(ret.results) = Len(call.items)
        /\ \A i \in 1..Len(call.items) :
              \E single \in {export_worksheet_to_csv(prev, call.items[i].sheet_name,
                                                     call.items[i].delimiter,
                                                     call.items[i].include_header_row)} :
                 /\ ret.results[i].success = ~single.raised
                 /\ IF ret.results[i].success
                    THEN /\ "csv_content" \notin DOMAIN ret.results[i]
                         /\ "csv_content_base64" \in DOMAIN ret.results[i]
                         /\ DecodePayload(ret.results[i].csv_content_base64).ok
                         /\ DecodePayload(ret.results[i].csv_content_base64).text =
                               single.results[1].csv_content
                         /\ ret.results[i].sheet_name = single.results[1].sheet_name
                    ELSE ret.results[i] = plain.results[i]

\* a base64 bulk export with an entry that carries rows and an entry that
\* failed
C29_Witness ==
    /\ call.op = "bulk_export_worksheets_to_csv_base64"
    /\ ~ret.raised
    /\ Len(ret.results) = 2
    /\ \E i \in 1..2 : ret.results[i].success /\ ret.results[i].rows_exported >= 1
    /\ \E i \in 1..2 : ~ret.results[i].success

\* ------------------------------------------------- the HTTP endpoints
ApiOps == {"api_import_csv", "api_export_csv", "api_bulk_import_csv", "api_bulk_export_csv"}

\* the outcome of the tool that the endpoint of the last request has called
ToolOutcome ==
    IF call.op = "api_import_csv"
    THEN import_csv(prev, call.items[1].csv_content_base64, call.items[1].sheet_name,
                    call.items[1].delimiter, TRUE, call.items[1].merge_mode)
    ELSE IF call.op = "api_export_csv"
    THEN tool_export_worksheet_to_csv(prev, call.items[1].sheet_name,
                                      call.items[1].delimiter,
                                      call.items[1].include_header_row)
    ELSE IF call.op = "api_bulk_import_csv"
    THEN bulk_import_csv(prev, call.items, call.create_if_missing)
    ELSE tool_bulk_export_worksheets_to_csv(prev, call.items)

\* C30: an endpoint answers 400 whenever its tool returns a dict without
\* success, and answers 500 only when the call of the tool raises.
C30_StatusCodes ==
    call.op \in ApiOps =>
        \E t \in {ToolOutcome} :
            /\ (~t.raised /\ ~t.results[1].success) => ret.results[1].status = 400
            /\ ret.results[1].status = 500 => t.raised

====
